---- MODULE Spec2Model ----
(***************************************************************************)
(* LinkedIt bot (bot.py, database.py): the search orchestrator with its    *)
(* TTL cache and worker pool, the SQLite tables, the per-user session map, *)
(* the callback / message handlers and the alert scheduler.                *)
(*                                                                         *)
(* Texts are sequences of one-character strings.  A scraped row is given   *)
(* by its job_url cell as str() prints it: "nan" is the cell NaN, "None"   *)
(* the cell None, "" the empty string.                                     *)
(***************************************************************************)
EXTENDS Integers, Sequences, FiniteSets, TLC

VARIABLES
    db,              \* the SQLite database: one field per table (see EmptyDb)
    today,           \* the current UTC date (a day number)
    job_cache,       \* TTLCache: entries [key, value, age], least recently used first
    user_data,       \* context.user_data, per user
    handler,         \* the update being handled (updates are handled one at a time)
    searches,        \* the search_jobs_logic call in flight, per caller
    pool_queue,      \* executor work queue: <<caller, country>> waiting for a worker
    orphans,         \* workers still running a scrape whose search has timed out
    last_search,     \* what the last search_jobs_logic call returned
    stored,          \* log of the cache stores younger than CACHE_TTL, oldest first:
                     \* [term, cc, value, age] as each search handed them to the cache
    answer,          \* the last notice shown to a user: [user, text]
    sched,           \* check_and_send_alerts: where the run stands
    delivered,       \* log of the alert job messages delivered: <<user, url>> -> count
    undelivered,     \* log of the alert messages that failed: [alert, message]
    admin_id,        \* ADMIN_ID as read from the environment when the bot starts
    broadcasts       \* log of the broadcasts sent: [message, attempts, sent, failed]

vars == <<db, today, job_cache, user_data, handler, searches, pool_queue, orphans,
          last_search, stored, answer, sched, delivered,
          undelivered, admin_id, broadcasts>>

db_vars == <<db, today>>

sched_vars == <<sched, delivered, undelivered>>

pool_vars == <<searches, pool_queue, orphans>>

-----------------------------------------------------------------------------
(* Program constants *)

MAX_RESULTS == 15
SEARCH_TIMEOUT == 90
MAX_FAVORITES == 50
MAX_ALERTS == 5
CACHE_TTL == 1800
CACHE_MAXSIZE == 200
MAX_WORKERS == 4
ALERT_TOP == 5

COUNTRIES == <<"qa", "ae", "sa", "bh">>

CountryCodes == {COUNTRIES[i] : i \in DOMAIN COUNTRIES}

Selectors == CountryCodes \cup {"all"}

-----------------------------------------------------------------------------
(* Bounds of the model *)

NumUsers == 2
TickStep == 900
MaxSearches == 2

Users == 1..NumUsers

Callers == {"handler", "sched"}

\* Favourite ids handed out, and the highest id a delfav_ button carries.
MaxFavIds == 51
MaxDelId == 1

\* Alert ids handed out.
MaxAlertIds == 6

\* Broadcasts kept in the log.
MaxBroadcasts == 2

\* Days the clock runs through.
MaxDays == 2

-----------------------------------------------------------------------------
(* Text: str.lower() and str.strip() on sequences of characters *)

UpperCase ==
    <<"A", "B", "C", "D", "E", "F", "G", "H", "I", "J", "K", "L", "M",
      "N", "O", "P", "Q", "R", "S", "T", "U", "V", "W", "X", "Y", "Z">>

LowerCase ==
    <<"a", "b", "c", "d", "e", "f", "g", "h", "i", "j", "k", "l", "m",
      "n", "o", "p", "q", "r", "s", "t", "u", "v", "w", "x", "y", "z">>

Digits == {"0", "1", "2", "3", "4", "5", "6", "7", "8", "9"}

lower_char(c) ==
    IF \E i \in DOMAIN UpperCase : UpperCase[i] = c
    THEN LowerCase[CHOOSE i \in DOMAIN UpperCase : UpperCase[i] = c]
    ELSE c

is_alnum(c) ==
    \/ \E i \in DOMAIN UpperCase : UpperCase[i] = c \/ LowerCase[i] = c
    \/ c \in Digits

starts_with(s, prefix) ==
    Len(prefix) <= Len(s) /\ SubSeq(s, 1, Len(prefix)) = prefix

str_lower(s) == [i \in DOMAIN s |-> lower_char(s[i])]

RECURSIVE str_lstrip(_)
str_lstrip(s) ==
    IF s # <<>> /\ Head(s) = " " THEN str_lstrip(Tail(s)) ELSE s

RECURSIVE str_rstrip(_)
str_rstrip(s) ==
    IF s # <<>> /\ s[Len(s)] = " " THEN str_rstrip(SubSeq(s, 1, Len(s) - 1)) ELSE s

str_strip(s) == str_rstrip(str_lstrip(s))

Min(a, b) == IF a < b THEN a ELSE b

Take(s, n) == SubSeq(s, 1, Min(n, Len(s)))

\* The entries of s at the positions in idx, in the order of s, from position i on.
RECURSIVE PickFrom(_, _, _)
PickFrom(s, idx, i) ==
    IF i > Len(s) THEN <<>>
    ELSE (IF i \in idx THEN <<s[i]>> ELSE <<>>) \o PickFrom(s, idx, i + 1)

RECURSIVE Concat(_)
Concat(lists) ==
    IF lists = <<>> THEN <<>> ELSE Head(lists) \o Concat(Tail(lists))

-----------------------------------------------------------------------------
(* The scrape call and _search_single_country *)

\* What scrape_jobs may do for one country: raise, or return a frame with these
\* job_url cells: four postings of the country, one posting listed twice that every
\* country carries, a NaN cell and an empty cell.
ScrapedRows(cc) ==
    CASE cc = "qa" -> <<"qa1", "qa2", "qa3", "qa4", "x", "nan", "x", "">>
      [] cc = "ae" -> <<"ae1", "ae2", "ae3", "ae4", "x", "nan", "x", "">>
      [] cc = "sa" -> <<"sa1", "sa2", "sa3", "sa4", "x", "nan", "x", "">>
      [] OTHER -> <<"bh1", "bh2", "bh3", "bh4", "x", "nan", "x", "">>

ScrapeOutcomes(cc) ==
    { [raised |-> TRUE, rows |-> <<>>],
      [raised |-> FALSE, rows |-> ScrapedRows(cc)] }

\* The list _search_single_country returns for an outcome of the scrape call.
search_single_country(outcome, cc) ==
    IF outcome.raised THEN <<>>
    ELSE [i \in DOMAIN outcome.rows |-> [job_url |-> outcome.rows[i], country_name |-> cc]]

-----------------------------------------------------------------------------
(* job_cache = TTLCache(maxsize, ttl) *)

\* A variant in which the key keeps the case of the query.
cache_key_as_typed(search_term, country_code) == <<str_strip(search_term), country_code>>

cache_key(search_term, country_code) == <<str_strip(str_lower(search_term)), country_code>>

\* A variant that still serves an entry at the end of its time to live.
cache_live_at_ttl(e) == e.age <= CACHE_TTL

cache_live(e) == e.age < CACHE_TTL

cache_contains(cache, key) ==
    \E i \in DOMAIN cache : cache[i].key = key /\ cache_live(cache[i])

cache_index(cache, key) == CHOOSE i \in DOMAIN cache : cache[i].key = key

cache_value(cache, key) == cache[cache_index(cache, key)].value

cache_drop_key(cache, key) == SelectSeq(cache, LAMBDA e : e.key # key)

\* __getitem__ marks the entry as most recently used.
cache_touch(cache, key) ==
    cache_drop_key(cache, key) \o <<cache[cache_index(cache, key)]>>

cache_expire(cache) == SelectSeq(cache, cache_live)

\* __setitem__: expired entries go, then least recently used ones while full.
cache_set(cache, key, value) ==
    LET kept == cache_drop_key(cache_expire(cache), key)
        room == IF Len(kept) >= CACHE_MAXSIZE
                THEN SubSeq(kept, Len(kept) - CACHE_MAXSIZE + 2, Len(kept))
                ELSE kept
    IN  room \o <<[key |-> key, value |-> value, age |-> 0]>>

cache_tick(cache, d) ==
    [i \in DOMAIN cache |-> [cache[i] EXCEPT !.age = Min(@ + d, CACHE_TTL)]]

-----------------------------------------------------------------------------
(* search_jobs_logic: deduplication *)

\* A variant of the loop that does not consult seen_urls.
unique_jobs_unseen(all_jobs, seen_urls) ==
    SelectSeq(all_jobs, LAMBDA job : job.job_url # "")

\* A variant that keeps the last job of each URL instead of the first.
unique_jobs_last_wins(all_jobs, seen_urls) ==
    PickFrom(all_jobs,
             {i \in DOMAIN all_jobs :
                 /\ all_jobs[i].job_url # ""
                 /\ all_jobs[i].job_url \notin seen_urls
                 /\ \A j \in DOMAIN all_jobs :
                       j > i => all_jobs[j].job_url # all_jobs[i].job_url},
             1)

RECURSIVE unique_jobs(_, _)
unique_jobs(all_jobs, seen_urls) ==
    IF all_jobs = <<>> THEN <<>>
    ELSE LET job == Head(all_jobs)
             url == job.job_url
         IN  IF url # "" /\ url \notin seen_urls
             THEN <<job>> \o unique_jobs(Tail(all_jobs), seen_urls \cup {url})
             ELSE unique_jobs(Tail(all_jobs), seen_urls)

-----------------------------------------------------------------------------
(* The worker pool: executor = ThreadPoolExecutor(max_workers) *)

NoOutcome == [raised |-> FALSE, rows |-> <<>>]

IdleSearch ==
    [status |-> "idle", term |-> <<>>, cc |-> "all", tasks |-> <<>>, elapsed |-> 0]

\* A variant that scrapes every country whatever the selector.
SearchCountries_every(country_code) == COUNTRIES

SearchCountries(country_code) ==
    IF country_code = "all" THEN COUNTRIES ELSE <<country_code>>

RunningOf(s) == {cc \in DOMAIN s.tasks : s.tasks[cc].st = "running"}

\* Workers that are executing _search_single_country.
Busy(ss, orph) ==
    orph + Cardinality(RunningOf(ss["handler"])) + Cardinality(RunningOf(ss["sched"]))

\* A variant of the executor that starts a thread for every call it is handed.
submitted_tasks_all_at_once(country_code, free) ==
    LET ccs == SearchCountries(country_code)
    IN  [cc \in {ccs[i] : i \in DOMAIN ccs} |->
            [st |-> "running", invoked |-> 1, outcome |-> NoOutcome]]

\* run_in_executor for each country in turn: a free worker takes the call at once,
\* otherwise the call waits in the queue.
submitted_tasks(country_code, free) ==
    LET ccs == SearchCountries(country_code)
    IN  [cc \in {ccs[i] : i \in DOMAIN ccs} |->
            LET i == CHOOSE j \in DOMAIN ccs : ccs[j] = cc
            IN  IF i <= free
                THEN [st |-> "running", invoked |-> 1, outcome |-> NoOutcome]
                ELSE [st |-> "queued", invoked |-> 0, outcome |-> NoOutcome]]

submitted_queue(caller, country_code, free) ==
    LET ccs == SearchCountries(country_code)
        waiting == SelectSeq([i \in DOMAIN ccs |-> i], LAMBDA i : i > free)
    IN  [k \in DOMAIN waiting |-> <<caller, ccs[waiting[k]]>>]

\* A worker that has finished takes the next call of the queue.
worker_takes_next(ss, queue) ==
    IF queue = <<>> THEN ss
    ELSE LET c == Head(queue)[1]
             cc == Head(queue)[2]
         IN  [ss EXCEPT ![c].tasks[cc] =
                 [st |-> "running", invoked |-> 1, outcome |-> NoOutcome]]

AllDone(s) == \A cc \in DOMAIN s.tasks : s.tasks[cc].st = "done"

\* search_jobs_logic, cache miss: the calls are handed to the executor.
search_submit(caller, search_term, country_code) ==
    LET free == MAX_WORKERS - Busy(searches, orphans)
    IN  /\ searches' = [searches EXCEPT ![caller] =
                [status |-> "waiting", term |-> search_term, cc |-> country_code,
                 tasks |-> submitted_tasks(country_code, free), elapsed |-> 0]]
        /\ pool_queue' = pool_queue \o submitted_queue(caller, country_code, free)
        /\ UNCHANGED orphans

\* A variant in which one raising call fails the whole search.
gathered_jobs_fail_fast(s) ==
    IF \E cc \in DOMAIN s.tasks : s.tasks[cc].outcome.raised THEN <<>>
    ELSE LET ccs == SearchCountries(s.cc)
         IN  Concat([i \in DOMAIN ccs |->
                        search_single_country(s.tasks[ccs[i]].outcome, ccs[i])])

\* all_jobs of a search whose calls have all returned.
gathered_jobs(s) ==
    LET ccs == SearchCountries(s.cc)
    IN  Concat([i \in DOMAIN ccs |->
                   search_single_country(s.tasks[ccs[i]].outcome, ccs[i])])

\* The return of search_jobs_logic after a miss: the calls still queued are
\* cancelled, the running ones go on in their threads, the list is stored.
search_return(caller, timed_out, unique) ==
    LET s == searches[caller]
        key == cache_key(s.term, s.cc)
    IN  /\ searches' = [searches EXCEPT ![caller] = IdleSearch]
        /\ pool_queue' = SelectSeq(pool_queue, LAMBDA q : q[1] # caller)
        /\ orphans' = orphans + Cardinality(RunningOf(s))
        /\ job_cache' = cache_set(job_cache, key, unique)
        /\ stored' = Append(stored, [term |-> s.term, cc |-> s.cc, value |-> unique,
                                      age |-> 0])
        /\ last_search' = [caller |-> caller, term |-> s.term, cc |-> s.cc,
                           from_cache |-> FALSE, timed_out |-> timed_out,
                           tasks |-> s.tasks, result |-> unique]

\* The return of search_jobs_logic on a cache hit.
search_hit(caller, search_term, country_code) ==
    LET key == cache_key(search_term, country_code)
    IN  /\ job_cache' = cache_touch(job_cache, key)
        /\ last_search' = [caller |-> caller, term |-> search_term, cc |-> country_code,
                           from_cache |-> TRUE, timed_out |-> FALSE,
                           tasks |-> <<>>, result |-> cache_value(job_cache, key)]
        /\ UNCHANGED <<pool_vars, stored>>

\* A scrape call returns or raises in its worker thread.
TaskFinish(caller, cc, outcome) ==
    /\ searches[caller].status = "waiting"
    /\ cc \in DOMAIN searches[caller].tasks
    /\ searches[caller].tasks[cc].st = "running"
    /\ outcome \in ScrapeOutcomes(cc)
    /\ LET done == [searches EXCEPT ![caller].tasks[cc] =
                       [st |-> "done", invoked |-> 1, outcome |-> outcome]]
       IN  searches' = worker_takes_next(done, pool_queue)
    /\ pool_queue' = IF pool_queue = <<>> THEN <<>> ELSE Tail(pool_queue)
    /\ UNCHANGED <<db_vars, admin_id, broadcasts, job_cache, user_data, handler, orphans, last_search,
                   stored, answer, sched_vars>>

\* A variant in which the list of a late scrape call is written under the key of
\* the search that gave up on it.
OrphanFinish_late_store(cc, outcome) ==
    /\ orphans > 0
    /\ outcome \in ScrapeOutcomes(cc)
    /\ orphans' = orphans - 1
    /\ searches' = worker_takes_next(searches, pool_queue)
    /\ pool_queue' = IF pool_queue = <<>> THEN <<>> ELSE Tail(pool_queue)
    /\ job_cache' = cache_set(job_cache, cache_key(last_search.term, last_search.cc),
                               search_single_country(outcome, cc))
    /\ UNCHANGED <<db_vars, admin_id, broadcasts, user_data, handler, last_search, stored, answer,
                   sched_vars>>

\* A scrape call of a search that has returned ends in its worker thread: the
\* future that awaited it was cancelled, nothing receives the list.
OrphanFinish(cc, outcome) ==
    /\ orphans > 0
    /\ outcome \in ScrapeOutcomes(cc)
    /\ orphans' = orphans - 1
    /\ searches' = worker_takes_next(searches, pool_queue)
    /\ pool_queue' = IF pool_queue = <<>> THEN <<>> ELSE Tail(pool_queue)
    /\ UNCHANGED <<db_vars, admin_id, broadcasts, job_cache, user_data, handler, last_search, stored, answer,
                   sched_vars>>

\* SearchReady: gather has every result before the timeout.
SearchReady(caller) ==
    /\ searches[caller].status = "waiting"
    /\ AllDone(searches[caller])
    /\ searches[caller].elapsed < SEARCH_TIMEOUT

\* A variant in which the timeout waits for the running scrape calls to end.
SearchTimedOut_joins_workers(caller) ==
    /\ searches[caller].status = "waiting"
    /\ searches[caller].elapsed >= SEARCH_TIMEOUT
    /\ RunningOf(searches[caller]) = {}

SearchTimedOut(caller) ==
    /\ searches[caller].status = "waiting"
    /\ searches[caller].elapsed >= SEARCH_TIMEOUT

\* datetime.utcnow().strftime("%Y-%m-%d") gives the next day from now on.
NextDay ==
    /\ today < MaxDays
    /\ today' = today + 1
    /\ UNCHANGED <<db, admin_id, broadcasts, job_cache, user_data, handler, pool_vars,
                   last_search, stored, answer, sched_vars>>

\* Time passes; a search whose results are all in, or whose timeout has expired,
\* is resumed first.
Tick ==
    /\ \A c \in Callers : ~SearchReady(c) /\ ~SearchTimedOut(c)
    /\ job_cache' = cache_tick(job_cache, TickStep)
    /\ stored' = LET aged == [i \in DOMAIN stored |->
                                  [stored[i] EXCEPT !.age = Min(@ + TickStep, CACHE_TTL)]]
                  IN  SelectSeq(aged, LAMBDA e : e.age < CACHE_TTL)
    /\ searches' = [c \in Callers |->
                       IF searches[c].status = "waiting"
                       THEN [searches[c] EXCEPT !.elapsed = Min(@ + TickStep, SEARCH_TIMEOUT)]
                       ELSE searches[c]]
    /\ UNCHANGED <<db_vars, admin_id, broadcasts, user_data, handler, pool_queue, orphans, last_search, answer,
                   sched_vars>>

-----------------------------------------------------------------------------
(* database.py *)

ZeroStats ==
    [new_users |-> 0, total_searches |-> 0, total_favorites |-> 0, total_alerts_sent |-> 0]

EmptyDb ==
    [users |-> {},
     alerts_enabled |-> [u \in Users |-> 0],
     preferred_countries |-> [u \in Users |-> <<>>],
     preferred_keywords |-> [u \in Users |-> <<>>],
     favorites |-> {},
     fav_seq |-> 0,
     alerts |-> {},
     alert_seq |-> 0,
     sent_jobs |-> <<>>,
     search_history |-> <<>>,
     daily_stats |-> <<>>]

\* INSERT INTO daily_stats (date, field) VALUES (today, 1)
\*   ON CONFLICT(date) DO UPDATE SET field = field + 1
increment_daily_stat_conn(d, day, field) ==
    LET row == IF day \in DOMAIN d.daily_stats THEN d.daily_stats[day] ELSE ZeroStats
    IN  [d EXCEPT !.daily_stats =
            [x \in DOMAIN d.daily_stats \cup {day} |->
                IF x = day THEN [row EXCEPT ![field] = @ + 1] ELSE d.daily_stats[x]]]

ensure_user_exists(d, day, user_id) ==
    IF user_id \in d.users THEN d
    ELSE increment_daily_stat_conn(
             [d EXCEPT !.users = @ \cup {user_id}, !.alerts_enabled[user_id] = 0],
             day, "new_users")

\* A variant that reads the row and never inserts it.
get_or_create_user_read_only(d, day, user_id) == d

get_or_create_user(d, day, user_id) ==
    IF user_id \in d.users THEN d
    ELSE increment_daily_stat_conn(
             [d EXCEPT !.users = @ \cup {user_id}, !.alerts_enabled[user_id] = 0],
             day, "new_users")

\* _safe_str: None, "nan", "none" (any case) and "" become the default "".
safe_str(value) ==
    IF value \in {"nan", "NaN", "None", "none", ""} THEN "" ELSE value

FavoritesOf(d, user_id) == {f \in d.favorites : f.user_id = user_id}

count_favorites(d, user_id) == Cardinality(FavoritesOf(d, user_id))

\* A variant of save_favorite without the look-up of the URL.
save_favorite_result_unchecked(d, user_id, job) == TRUE

\* save_favorite: the value it returns ...
save_favorite_result(d, user_id, job) ==
    LET job_url == safe_str(job.job_url)
    IN  ~(job_url # "" /\ \E f \in FavoritesOf(d, user_id) : f.job_url = job_url)

\* ... and the database it commits.
save_favorite(d, day, user_id, job) ==
    LET job_url == safe_str(job.job_url)
        d1 == ensure_user_exists(d, day, user_id)
    IN  IF ~save_favorite_result(d, user_id, job) THEN d1
        ELSE increment_daily_stat_conn(
                 [d1 EXCEPT !.favorites = @ \cup
                                {[id |-> d1.fav_seq + 1, user_id |-> user_id,
                                  job_url |-> job_url,
                                  country_name |-> safe_str(job.country_name)]},
                            !.fav_seq = @ + 1],
                 day, "total_favorites")

remove_favorite_result(d, user_id, favorite_id) ==
    \E f \in d.favorites : f.id = favorite_id /\ f.user_id = user_id

\* A variant that takes a deleted favourite off the day's counter.
remove_favorite_uncounts(d, user_id, favorite_id) ==
    LET kept == {f \in d.favorites : ~(f.id = favorite_id /\ f.user_id = user_id)}
    IN  IF kept = d.favorites THEN d
        ELSE [d EXCEPT !.favorites = kept,
                       !.daily_stats[today].total_favorites = @ - 1]

\* A variant of remove_favorite whose DELETE matches on the id alone.
remove_favorite_any_user(d, user_id, favorite_id) ==
    [d EXCEPT !.favorites = {f \in @ : f.id # favorite_id}]

remove_favorite(d, user_id, favorite_id) ==
    [d EXCEPT !.favorites = {f \in @ : ~(f.id = favorite_id /\ f.user_id = user_id)}]

\* get_favorites: SELECT * FROM favorites WHERE user_id = ? ORDER BY saved_at DESC
\* LIMIT 20, the rows taken in the order they were saved.
get_favorites(d, user_id) ==
    {f \in FavoritesOf(d, user_id) :
        Cardinality({g \in FavoritesOf(d, user_id) : g.id > f.id}) < 20}

ActiveAlertsOf(d, user_id) == {a \in d.alerts : a.user_id = user_id /\ a.is_active = 1}

count_alerts(d, user_id) == Cardinality(ActiveAlertsOf(d, user_id))

\* add_alert: the id it returns (-1 for a duplicate) ...
\* A variant that looks the keyword up as it was typed.
add_alert_result_as_typed(d, user_id, keyword, country_code) ==
    IF \E a \in ActiveAlertsOf(d, user_id) :
          a.keyword = keyword /\ a.country_code = country_code
    THEN -1
    ELSE d.alert_seq + 1

add_alert_result(d, user_id, keyword, country_code) ==
    LET kw == str_strip(str_lower(keyword))
    IN  IF \E a \in ActiveAlertsOf(d, user_id) : a.keyword = kw /\ a.country_code = country_code
        THEN -1
        ELSE d.alert_seq + 1

\* ... and the database it commits.
add_alert(d, day, user_id, keyword, country_code) ==
    LET kw == str_strip(str_lower(keyword))
        d1 == ensure_user_exists(d, day, user_id)
    IN  IF add_alert_result(d, user_id, keyword, country_code) = -1 THEN d1
        ELSE [d1 EXCEPT !.alerts = @ \cup
                            {[id |-> d1.alert_seq + 1, user_id |-> user_id, keyword |-> kw,
                              country_code |-> country_code, is_active |-> 1]},
                        !.alert_seq = @ + 1,
                        !.alerts_enabled[user_id] = 1]

\* remove_alert returns rowcount > 0 of the UPDATE, which matches on (id, user_id) only.
remove_alert_result(d, user_id, alert_id) ==
    \E a \in d.alerts : a.id = alert_id /\ a.user_id = user_id

\* A variant that deletes the row instead of clearing its flag.
remove_alert_deletes_row(d, user_id, alert_id) ==
    LET d1 == [d EXCEPT !.alerts =
                   {a \in @ : ~(a.id = alert_id /\ a.user_id = user_id)}]
    IN  IF count_alerts(d1, user_id) = 0
        THEN [d1 EXCEPT !.alerts_enabled[user_id] = 0]
        ELSE d1

\* A variant whose UPDATE binds the two ids the other way round.
remove_alert_ids_swapped(d, user_id, alert_id) ==
    LET d1 == [d EXCEPT !.alerts =
                   {IF a.id = user_id /\ a.user_id = alert_id
                    THEN [a EXCEPT !.is_active = 0] ELSE a : a \in @}]
    IN  IF count_alerts(d1, user_id) = 0
        THEN [d1 EXCEPT !.alerts_enabled[user_id] = 0]
        ELSE d1

\* A variant without the UPDATE of alerts_enabled after the last alert.
remove_alert_keeps_flag(d, user_id, alert_id) ==
    [d EXCEPT !.alerts =
        {IF a.id = alert_id /\ a.user_id = user_id
         THEN [a EXCEPT !.is_active = 0] ELSE a : a \in @}]

remove_alert(d, user_id, alert_id) ==
    LET d1 == [d EXCEPT !.alerts =
                   {IF a.id = alert_id /\ a.user_id = user_id
                    THEN [a EXCEPT !.is_active = 0] ELSE a : a \in @}]
    IN  IF count_alerts(d1, user_id) = 0
        THEN [d1 EXCEPT !.alerts_enabled[user_id] = 0]
        ELSE d1

\* Rows of a table scan come in rowid order.
RECURSIVE rows_by_id(_)
rows_by_id(rows) ==
    IF rows = {} THEN <<>>
    ELSE LET first == CHOOSE a \in rows : \A b \in rows : a.id <= b.id
         IN  <<first>> \o rows_by_id(rows \ {first})

get_all_active_alerts(d) == rows_by_id({a \in d.alerts : a.is_active = 1})

\* update_alert_sent: the last_sent stamp of the row and the day's counter.
update_alert_sent(d, day, alert_id) == increment_daily_stat_conn(d, day, "total_alerts_sent")

\* sent_jobs holds its rows in the order of their autoincrement id.
is_job_sent(d, user_id, job_url) ==
    \E i \in DOMAIN d.sent_jobs : d.sent_jobs[i] = [user_id |-> user_id, job_url |-> job_url]

\* A variant of mark_job_sent whose INSERT is lost.
mark_job_sent_lost(d, day, user_id, job_url) == ensure_user_exists(d, day, user_id)

\* A variant whose table has no UNIQUE(user_id, job_url): every INSERT adds a row.
mark_job_sent_no_unique(d, day, user_id, job_url) ==
    LET d1 == ensure_user_exists(d, day, user_id)
    IN  [d1 EXCEPT !.sent_jobs = Append(@, [user_id |-> user_id, job_url |-> job_url])]

\* INSERT OR IGNORE: the UNIQUE(user_id, job_url) constraint drops the row when the
\* pair is in the table.
mark_job_sent(d, day, user_id, job_url) ==
    LET d1 == ensure_user_exists(d, day, user_id)
        row == [user_id |-> user_id, job_url |-> job_url]
    IN  IF \E i \in DOMAIN d1.sent_jobs : d1.sent_jobs[i] = row
        THEN d1
        ELSE [d1 EXCEPT !.sent_jobs = Append(@, row)]

\* A variant of log_search that inserts the row and leaves the counter.
log_search_without_counter(d, day, user_id, search_term, country_code, results_count) ==
    LET d1 == ensure_user_exists(d, day, user_id)
    IN  [d1 EXCEPT !.search_history = Append(@,
            [user_id |-> user_id, search_term |-> str_strip(str_lower(search_term)),
             country_code |-> country_code, results_count |-> results_count])]

\* INSERT INTO search_history, then the day's total_searches is incremented.
log_search(d, day, user_id, search_term, country_code, results_count) ==
    LET d1 == ensure_user_exists(d, day, user_id)
    IN  increment_daily_stat_conn(
            [d1 EXCEPT !.search_history = Append(@,
                [user_id |-> user_id, search_term |-> str_strip(str_lower(search_term)),
                 country_code |-> country_code, results_count |-> results_count])],
            day, "total_searches")

\* update_user_preferences(user_id, countries=...)
update_user_countries(d, day, user_id, countries) ==
    LET d1 == ensure_user_exists(d, day, user_id)
    IN  [d1 EXCEPT !.preferred_countries[user_id] = countries]

\* get_user_preferences(user_id)["preferred_countries"]: [] without a row.
get_preferred_countries(d, user_id) ==
    IF user_id \in d.users THEN d.preferred_countries[user_id] ELSE <<>>

\* update_user_preferences(user_id, keywords=...)
update_user_keywords(d, day, user_id, keywords) ==
    LET d1 == ensure_user_exists(d, day, user_id)
    IN  [d1 EXCEPT !.preferred_keywords[user_id] = keywords]

-----------------------------------------------------------------------------
(* bot.py: input validation *)

\* The Latin-script entries of GREETINGS and COUNTRY_NAMES.
GREETINGS ==
    { <<"h", "i">>, <<"h", "e", "l", "l", "o">>, <<"h", "e", "y">>,
      <<"t", "h", "a", "n", "k", "s">>,
      <<"g", "o", "o", "d", " ", "m", "o", "r", "n", "i", "n", "g">>,
      <<"g", "o", "o", "d", " ", "e", "v", "e", "n", "i", "n", "g">> }

COUNTRY_NAMES ==
    { <<"q", "a", "t", "a", "r">>, <<"u", "a", "e">>, <<"s", "a", "u", "d", "i">>,
      <<"b", "a", "h", "r", "a", "i", "n">>,
      <<"s", "a", "u", "d", "i", " ", "a", "r", "a", "b", "i", "a">> }

MIN_QUERY_LEN == 2
MAX_QUERY_LEN == 60

validate_search_input(raw) ==
    LET text == str_strip(raw)
        text_lower == str_strip(str_lower(text))
    IN  /\ text # <<>>
        /\ Len(text) >= MIN_QUERY_LEN
        /\ Len(text) <= MAX_QUERY_LEN
        /\ \E i \in DOMAIN text : is_alnum(text[i])
        /\ ~\E g \in GREETINGS : starts_with(text_lower, g)
        /\ text_lower \notin COUNTRY_NAMES

-----------------------------------------------------------------------------
(* bot.py: the session map and perform_search *)

NewUserData ==
    [country |-> "unset",
     awaiting_alert_keyword |-> FALSE,
     alert_keyword |-> <<>>,
     awaiting_pref_keywords |-> FALSE,
     awaiting_broadcast |-> FALSE,
     broadcast_message |-> <<>>,
     results |-> <<>>]

IdleHandler == [pc |-> "idle", user |-> 0, term |-> <<>>, cc |-> "all"]

NoSearch ==
    [caller |-> "none", term |-> <<>>, cc |-> "all", from_cache |-> FALSE,
     timed_out |-> FALSE, tasks |-> <<>>, result |-> <<>>]

\* _generate_job_id: the md5 of the URL text and the title (rows carry one title).
generate_job_id(job) == <<"md5", job.job_url>>

\* A variant of trimmed_results that keeps the whole list.
trimmed_results_uncut(results) == results

\* trimmed_results = results[:MAX_RESULTS]
trimmed_results(results) == Take(results, MAX_RESULTS)

\* perform_search from the return of search_jobs_logic on: the search is logged,
\* and a non-empty list is cut to MAX_RESULTS and kept for paging and saving.
perform_search_tail(d, user_id, search_term, country_code, results) ==
    /\ db' = log_search(d, today, user_id, search_term, country_code, Len(results))
    /\ IF results = <<>>
       THEN /\ answer' = [user |-> user_id, text |-> "no_jobs_found"]
            /\ UNCHANGED user_data
       ELSE /\ user_data' = [user_data EXCEPT ![user_id].results =
                                 Append(@, trimmed_results(results))]
            /\ answer' = [user |-> user_id, text |-> "results_page"]

\* perform_search up to the return of search_jobs_logic: a cache hit returns at
\* once, a miss leaves the handler waiting for the executor.
perform_search(d, user_id, search_term, country_code) ==
    /\ Len(db.search_history) < MaxSearches
    /\ IF cache_contains(job_cache, cache_key(search_term, country_code))
       THEN /\ search_hit("handler", search_term, country_code)
            /\ perform_search_tail(d, user_id, search_term, country_code,
                   cache_value(job_cache, cache_key(search_term, country_code)))
            /\ UNCHANGED <<today, admin_id, broadcasts, handler>>
       ELSE /\ search_submit("handler", search_term, country_code)
            /\ handler' = [pc |-> "searching", user |-> user_id, term |-> search_term,
                           cc |-> country_code]
            /\ db' = d
            /\ UNCHANGED <<today, admin_id, broadcasts, job_cache, user_data, last_search, stored, answer>>

\* The handler's search returns with every result before the timeout.
HandlerSearchDone ==
    /\ handler.pc = "searching"
    /\ SearchReady("handler")
    /\ \E unique \in {unique_jobs(gathered_jobs(searches["handler"]), {})} :
          /\ search_return("handler", FALSE, unique)
          /\ perform_search_tail(db, handler.user, handler.term, handler.cc, unique)
    /\ handler' = IdleHandler
    /\ UNCHANGED <<today, admin_id, broadcasts, sched_vars>>

\* asyncio.TimeoutError: results_lists = [] (or all_jobs = []).
HandlerSearchTimeout ==
    /\ handler.pc = "searching"
    /\ SearchTimedOut("handler")
    /\ search_return("handler", TRUE, unique_jobs(<<>>, {}))
    /\ perform_search_tail(db, handler.user, handler.term, handler.cc, unique_jobs(<<>>, {}))
    /\ handler' = IdleHandler
    /\ UNCHANGED <<today, admin_id, broadcasts, sched_vars>>

-----------------------------------------------------------------------------
(* bot.py: start, search_command, help_command *)

\* /start
Start(u) ==
    /\ handler.pc = "idle"
    /\ db' = get_or_create_user(db, today, u)
    /\ answer' = [user |-> u, text |-> "welcome"]
    /\ UNCHANGED <<today, admin_id, broadcasts, job_cache, user_data, handler, pool_vars, last_search,
                   stored, sched_vars>>

\* /search: the country keyboard.
SearchCommand(u) ==
    /\ handler.pc = "idle"
    /\ answer' = [user |-> u, text |-> "choose_search_country"]
    /\ UNCHANGED <<db_vars, admin_id, broadcasts, job_cache, user_data, handler, pool_vars, last_search,
                   stored, sched_vars>>

\* /help
HelpCommand(u) ==
    /\ handler.pc = "idle"
    /\ answer' = [user |-> u, text |-> "help"]
    /\ UNCHANGED <<db_vars, admin_id, broadcasts, job_cache, user_data, handler, pool_vars, last_search,
                   stored, sched_vars>>

-----------------------------------------------------------------------------
(* bot.py: handle_callback, one action per button *)

\* country_<code>: the country of the next text search.
CallbackCountry(u, cc) ==
    /\ handler.pc = "idle"
    /\ db' = get_or_create_user(db, today, u)
    /\ user_data' = [user_data EXCEPT ![u].country = cc]
    /\ answer' = [user |-> u, text |-> "send_job_title"]
    /\ UNCHANGED <<today, admin_id, broadcasts, job_cache, handler, pool_vars, last_search, stored, sched_vars>>

\* A variant that looks through the result lists of every user.
StoredJobs_everyone(u) == Concat(Concat([v \in Users |-> user_data[v].results]))

\* The stored result lists of a user, in the order of user_data.
StoredJobs(u) == Concat(user_data[u].results)

\* The positions of the stored jobs whose generated id is job_id.
job_hits(u, job_id) ==
    {i \in DOMAIN StoredJobs(u) : generate_job_id(StoredJobs(u)[i]) = job_id}

\* The first of them: job_to_save.
found_job(u, job_id) ==
    StoredJobs(u)[CHOOSE i \in job_hits(u, job_id) : \A j \in job_hits(u, job_id) : i <= j]

\* A variant of the cap test that lets one favourite more in.
favorites_full_late(d, user_id) == count_favorites(d, user_id) > MAX_FAVORITES

\* db.count_favorites(user_id) >= MAX_FAVORITES
favorites_full(d, user_id) == count_favorites(d, user_id) >= MAX_FAVORITES

\* savejob_<id>
CallbackSaveJob(u, job_id) ==
    /\ handler.pc = "idle"
    /\ db.fav_seq < MaxFavIds
    /\ LET d == get_or_create_user(db, today, u)
       IN  IF job_hits(u, job_id) # {}
           THEN LET job_to_save == found_job(u, job_id)
                IN  IF favorites_full(d, u)
                    THEN /\ db' = d
                         /\ answer' = [user |-> u, text |-> "favorites_full"]
                    ELSE IF save_favorite_result(d, u, job_to_save)
                    THEN /\ db' = save_favorite(d, today, u, job_to_save)
                         /\ answer' = [user |-> u, text |-> "favorite_saved"]
                    ELSE /\ db' = save_favorite(d, today, u, job_to_save)
                         /\ answer' = [user |-> u, text |-> "already_saved"]
           ELSE /\ db' = d
                /\ answer' = [user |-> u, text |-> "cannot_save"]
    /\ UNCHANGED <<today, admin_id, broadcasts, job_cache, user_data, handler, pool_vars, last_search, stored,
                   sched_vars>>

\* delfav_<id>
CallbackDelFav(u, fav_id) ==
    /\ handler.pc = "idle"
    /\ LET d == get_or_create_user(db, today, u)
       IN  /\ db' = remove_favorite(d, u, fav_id)
           /\ answer' = [user |-> u,
                         text |-> IF remove_favorite_result(d, u, fav_id)
                                  THEN "favorite_deleted" ELSE "cannot_delete"]
    /\ UNCHANGED <<today, admin_id, broadcasts, job_cache, user_data, handler, pool_vars, last_search, stored,
                   sched_vars>>

\* viewfav_<id>: show_favorite_detail looks the id up in get_favorites(user_id).
CallbackViewFav(u, fav_id) ==
    /\ handler.pc = "idle"
    /\ LET d == get_or_create_user(db, today, u)
       IN  /\ db' = d
           /\ answer' = [user |-> u,
                         text |-> IF \E f \in get_favorites(d, u) : f.id = fav_id
                                  THEN "favorite_detail" ELSE "favorite_not_found"]
    /\ UNCHANGED <<today, admin_id, broadcasts, job_cache, user_data, handler, pool_vars,
                   last_search, stored, sched_vars>>

\* add_alert
CallbackAddAlert(u) ==
    /\ handler.pc = "idle"
    /\ LET d == get_or_create_user(db, today, u)
       IN  /\ db' = d
           /\ IF count_alerts(d, u) >= MAX_ALERTS
              THEN /\ answer' = [user |-> u, text |-> "alerts_full"]
                   /\ UNCHANGED user_data
              ELSE /\ user_data' = [user_data EXCEPT ![u].awaiting_alert_keyword = TRUE]
                   /\ answer' = [user |-> u, text |-> "send_alert_keyword"]
    /\ UNCHANGED <<today, admin_id, broadcasts, job_cache, handler, pool_vars, last_search, stored, sched_vars>>

\* alertcountry_<code>
CallbackAlertCountry(u, cc) ==
    /\ handler.pc = "idle"
    /\ db.alert_seq < MaxAlertIds
    /\ LET d == get_or_create_user(db, today, u)
           keyword == user_data[u].alert_keyword
       IN  IF keyword # <<>>
           THEN /\ db' = add_alert(d, today, u, keyword, cc)
                /\ answer' = [user |-> u,
                              text |-> IF add_alert_result(d, u, keyword, cc) = -1
                                       THEN "alert_exists" ELSE "alert_added"]
                /\ user_data' = [user_data EXCEPT ![u].alert_keyword = <<>>]
           ELSE /\ db' = d
                /\ UNCHANGED <<user_data, answer>>
    /\ UNCHANGED <<today, admin_id, broadcasts, job_cache, handler, pool_vars, last_search, stored, sched_vars>>

\* delalert_<id>
CallbackDelAlert(u, alert_id) ==
    /\ handler.pc = "idle"
    /\ LET d == get_or_create_user(db, today, u)
       IN  /\ db' = remove_alert(d, u, alert_id)
           /\ answer' = [user |-> u,
                         text |-> IF remove_alert_result(d, u, alert_id)
                                  THEN "alert_deleted" ELSE "cannot_delete"]
    /\ UNCHANGED <<today, admin_id, broadcasts, job_cache, user_data, handler, pool_vars, last_search, stored,
                   sched_vars>>

\* list.remove(x): the list without the first x.
RECURSIVE list_remove(_, _)
list_remove(list, x) ==
    IF list = <<>> THEN <<>>
    ELSE IF Head(list) = x THEN Tail(list)
    ELSE <<Head(list)>> \o list_remove(Tail(list), x)

\* A variant of the toggle that appends the code whether it is in the list or not.
toggle_country_appends(current, cc) == Append(current, cc)

\* if cc in current: current.remove(cc) else: current.append(cc)
toggle_country(current, cc) ==
    IF \E i \in DOMAIN current : current[i] = cc
    THEN list_remove(current, cc)
    ELSE Append(current, cc)

\* togglecountry_<code>
CallbackToggleCountry(u, cc) ==
    /\ handler.pc = "idle"
    /\ LET d == get_or_create_user(db, today, u)
       IN  db' = update_user_countries(d, today, u,
                     toggle_country(get_preferred_countries(d, u), cc))
    /\ answer' = [user |-> u, text |-> "countries_keyboard"]
    /\ UNCHANGED <<today, admin_id, broadcasts, job_cache, user_data, handler, pool_vars,
                   last_search, stored, sched_vars>>

\* set_pref_keywords
CallbackSetPrefKeywords(u) ==
    /\ handler.pc = "idle"
    /\ db' = get_or_create_user(db, today, u)
    /\ user_data' = [user_data EXCEPT ![u].awaiting_pref_keywords = TRUE]
    /\ answer' = [user |-> u, text |-> "send_pref_keywords"]
    /\ UNCHANGED <<today, admin_id, broadcasts, job_cache, handler, pool_vars, last_search, stored, sched_vars>>

-----------------------------------------------------------------------------
(* bot.py: handle_message *)

\* ADMIN_ID = int(os.environ.get("ADMIN_ID", "0")): the value when the variable is
\* not set.
ADMIN_ID == 0

\* A variant that lets every user in when no operator is configured.
is_admin_open_when_unset(user_id) == admin_id = 0 \/ user_id = admin_id

is_admin(user_id) == admin_id # 0 /\ user_id = admin_id

\* [k.strip() for k in text.split(",") if k.strip()][:10], for a text without commas
split_keywords(text) == IF str_strip(text) = <<>> THEN <<>> ELSE <<str_strip(text)>>

\* A variant of handle_message that looks at awaiting_pref_keywords before
\* awaiting_alert_keyword.
Message_keywords_first(u, raw) ==
    /\ handler.pc = "idle"
    /\ UNCHANGED sched_vars
    /\ LET text == str_strip(raw)
           d == get_or_create_user(db, today, u)
       IN  /\ text # <<>>
           /\ IF user_data[u].awaiting_pref_keywords
              THEN /\ user_data' = [user_data EXCEPT ![u].awaiting_pref_keywords = FALSE]
                   /\ db' = update_user_keywords(d, today, u, split_keywords(text))
                   /\ answer' = [user |-> u, text |-> "keywords_saved"]
                   /\ UNCHANGED <<today, admin_id, broadcasts, job_cache, handler, pool_vars, last_search, stored, sched_vars>>
              ELSE IF user_data[u].awaiting_alert_keyword
              THEN /\ user_data' = [user_data EXCEPT ![u].awaiting_alert_keyword = FALSE,
                                                     ![u].alert_keyword = text]
                   /\ answer' = [user |-> u, text |-> "choose_alert_country"]
                   /\ db' = d
                   /\ UNCHANGED <<today, admin_id, broadcasts, job_cache, handler, pool_vars, last_search, stored, sched_vars>>
              ELSE IF user_data[u].awaiting_broadcast /\ is_admin(u)
              THEN /\ user_data' = [user_data EXCEPT ![u].broadcast_message = text]
                   /\ answer' = [user |-> u, text |-> "broadcast_preview"]
                   /\ db' = d
                   /\ UNCHANGED <<today, admin_id, broadcasts, job_cache, handler, pool_vars, last_search, stored, sched_vars>>
              ELSE IF ~validate_search_input(text)
              THEN /\ answer' = [user |-> u, text |-> "guide"]
                   /\ db' = d
                   /\ UNCHANGED <<today, admin_id, broadcasts, job_cache, user_data, handler, pool_vars,
                                  last_search, stored>>
              ELSE perform_search(d, u, text,
                       IF user_data[u].country = "unset" THEN "all" ELSE user_data[u].country)

\* handle_message: the text is stripped, an empty text is dropped, and the first
\* pending input that is found takes the text.
Message(u, raw) ==
    /\ handler.pc = "idle"
    /\ UNCHANGED sched_vars
    /\ LET text == str_strip(raw)
           d == get_or_create_user(db, today, u)
       IN  /\ text # <<>>
           /\ IF user_data[u].awaiting_alert_keyword
              THEN /\ user_data' = [user_data EXCEPT ![u].awaiting_alert_keyword = FALSE,
                                                     ![u].alert_keyword = text]
                   /\ answer' = [user |-> u, text |-> "choose_alert_country"]
                   /\ db' = d
                   /\ UNCHANGED <<today, admin_id, broadcasts, job_cache, handler, pool_vars, last_search, stored, sched_vars>>
              ELSE IF user_data[u].awaiting_pref_keywords
              THEN /\ user_data' = [user_data EXCEPT ![u].awaiting_pref_keywords = FALSE]
                   /\ db' = update_user_keywords(d, today, u, split_keywords(text))
                   /\ answer' = [user |-> u, text |-> "keywords_saved"]
                   /\ UNCHANGED <<today, admin_id, broadcasts, job_cache, handler, pool_vars, last_search, stored, sched_vars>>
              ELSE IF user_data[u].awaiting_broadcast /\ is_admin(u)
              THEN /\ user_data' = [user_data EXCEPT ![u].broadcast_message = text]
                   /\ answer' = [user |-> u, text |-> "broadcast_preview"]
                   /\ db' = d
                   /\ UNCHANGED <<today, admin_id, broadcasts, job_cache, handler, pool_vars, last_search, stored, sched_vars>>
              ELSE IF ~validate_search_input(text)
              THEN /\ answer' = [user |-> u, text |-> "guide"]
                   /\ db' = d
                   /\ UNCHANGED <<today, admin_id, broadcasts, job_cache, user_data, handler, pool_vars,
                                  last_search, stored>>
              ELSE perform_search(d, u, text,
                       IF user_data[u].country = "unset" THEN "all" ELSE user_data[u].country)

-----------------------------------------------------------------------------
(* bot.py: admin_command, handle_admin_callback *)

\* /admin: the dashboard is sent as a new message.
AdminCommand(u) ==
    /\ handler.pc = "idle"
    /\ answer' = [user |-> u,
                  text |-> IF is_admin(u) THEN "admin_dashboard" ELSE "admin_only"]
    /\ UNCHANGED <<db_vars, admin_id, broadcasts, job_cache, user_data, handler, pool_vars, last_search,
                   stored, sched_vars>>

\* The buttons of the dashboard: the menu, one of the analytics pages, and the
\* three steps of a broadcast.
AdminData == {"admin_menu", "admin_overview", "admin_broadcast",
              "admin_confirm_broadcast", "admin_cancel_broadcast"}

\* broadcast_get_all_user_ids: SELECT user_id FROM users, in the order of the key.
RECURSIVE broadcast_get_all_user_ids(_)
broadcast_get_all_user_ids(d) ==
    IF d.users = {} THEN <<>>
    ELSE LET first == CHOOSE u \in d.users : \A v \in d.users : u <= v
         IN  <<first>> \o broadcast_get_all_user_ids([d EXCEPT !.users = @ \ {first}])

\* The loop of admin_confirm_broadcast over user_ids: one safe_send_message per
\* id, counted as sent when it returns the message and as failed when it returns
\* None; reached is the set of chats that take the message.
RECURSIVE broadcast_loop(_, _, _, _)
broadcast_loop(user_ids, reached, msg_text, tally) ==
    IF user_ids = <<>> THEN tally
    ELSE LET uid == Head(user_ids)
             result == uid \in reached
         IN  broadcast_loop(Tail(user_ids), reached, msg_text,
                 [tally EXCEPT !.attempts = Append(@, [to |-> uid, ok |-> result]),
                               !.sent = IF result THEN @ + 1 ELSE @,
                               !.failed = IF result THEN @ ELSE @ + 1])

\* A variant of the session after a broadcast that keeps the text for another
\* confirm.
after_broadcast_keeps_message(session) == [session EXCEPT !.awaiting_broadcast = FALSE]

\* context.user_data.pop("broadcast_message"), .pop("awaiting_broadcast")
after_broadcast(session) ==
    [session EXCEPT !.awaiting_broadcast = FALSE, !.broadcast_message = <<>>]

\* A button whose data starts with admin_: handle_callback, then
\* handle_admin_callback.
CallbackAdmin(u, data) ==
    /\ handler.pc = "idle"
    /\ data \in AdminData
    /\ db' = get_or_create_user(db, today, u)
    /\ IF ~is_admin(u)
       THEN /\ answer' = [user |-> u, text |-> "not_authorized"]
            /\ UNCHANGED <<user_data, broadcasts>>
       ELSE CASE data = "admin_menu" ->
                   /\ answer' = [user |-> u, text |-> "admin_menu"]
                   /\ UNCHANGED <<user_data, broadcasts>>
              [] data = "admin_overview" ->
                   /\ answer' = [user |-> u, text |-> "analytics"]
                   /\ UNCHANGED <<user_data, broadcasts>>
              [] data = "admin_broadcast" ->
                   /\ user_data' = [user_data EXCEPT ![u].awaiting_broadcast = TRUE]
                   /\ answer' = [user |-> u, text |-> "broadcast_prompt"]
                   /\ UNCHANGED broadcasts
              [] data = "admin_confirm_broadcast" ->
                   LET msg_text == user_data[u].broadcast_message
                       user_ids == broadcast_get_all_user_ids(db')
                   IN  IF msg_text = <<>>
                       THEN /\ answer' = [user |-> u, text |-> "no_broadcast_message"]
                            /\ UNCHANGED <<user_data, broadcasts>>
                       ELSE /\ Len(broadcasts) < MaxBroadcasts
                            /\ \E reached \in SUBSET db'.users :
                                  broadcasts' = Append(broadcasts,
                                      broadcast_loop(user_ids, reached, msg_text,
                                          [message |-> msg_text, attempts |-> <<>>,
                                           sent |-> 0, failed |-> 0]))
                            /\ answer' = [user |-> u, text |-> "broadcast_sent"]
                            /\ user_data' = [user_data EXCEPT ![u] = after_broadcast(@)]
              [] data = "admin_cancel_broadcast" ->
                   /\ answer' = [user |-> u, text |-> "broadcast_cancelled"]
                   /\ user_data' = [user_data EXCEPT ![u].awaiting_broadcast = FALSE,
                                                     ![u].broadcast_message = <<>>]
                   /\ UNCHANGED broadcasts
    /\ UNCHANGED <<today, admin_id, job_cache, handler, pool_vars, last_search, stored,
                   sched_vars>>

-----------------------------------------------------------------------------
(* Failing calls: the try/except blocks of bot.py and database.py *)

NoExc == "none"

\* The base class of an exception class.
Parent(c) ==
    CASE c \in {"BadRequest", "Forbidden", "NetworkError"} -> "TelegramError"
      [] c = "OperationalError" -> "DatabaseError"
      [] c \in {"TelegramError", "DatabaseError", "ScrapeError"} -> "Exception"
      [] OTHER -> "BaseException"

RECURSIVE IsInstance(_, _)
IsInstance(e, c) ==
    \/ e = c
    \/ e # "BaseException" /\ IsInstance(Parent(e), c)

\* What the Telegram API, sqlite and the scrape library raise when they fail.
TelegramFailures == {"BadRequest", "Forbidden", "NetworkError", "TelegramError"}

DatabaseFailures == {"OperationalError", "DatabaseError"}

ScrapeFailures == {"ScrapeError"}

\* The exception that leaves a try block in which e was raised and whose except
\* clauses, none of which raises, name the classes caught.
try_except(e, caught) ==
    IF e = NoExc \/ \E c \in caught : IsInstance(e, c) THEN NoExc ELSE e

\* The exception of the first statement of a sequence that raises.
RECURSIVE first_raised(_)
first_raised(stmts) ==
    IF stmts = <<>> THEN NoExc
    ELSE IF Head(stmts) # NoExc THEN Head(stmts)
    ELSE first_raised(Tail(stmts))

safe_edit_message(tg) == try_except(tg, {"BadRequest", "TelegramError", "Exception"})

\* A variant that ignores only the expired-callback error.
safe_answer_callback_expired_only(tg) == try_except(tg, {"BadRequest"})

safe_answer_callback(tg) == try_except(tg, {"BadRequest", "TelegramError"})

safe_send_message(tg) == try_except(tg, {"TelegramError", "Exception"})

\* get_db rolls back and raises again.
get_db(dbx) == dbx

\* Every function of database.py that a handler calls: with get_db() inside
\* try: ... except Exception.
db_function(dbx) == try_except(get_db(dbx), {"Exception"})

search_single_country_raises(sx) == try_except(sx, {"Exception"})

search_jobs_logic_raises(f) == search_single_country_raises(f.scrape)

perform_search_raises(f) ==
    try_except(first_raised(<<f.tg,
                              search_jobs_logic_raises(f),
                              try_except(db_function(f.db), {"Exception"}),
                              safe_send_message(f.tg)>>),
               {"Exception"})

start_raises(f) == try_except(first_raised(<<db_function(f.db), f.tg>>), {"Exception"})

command_raises(f) == try_except(f.tg, {"Exception"})

handle_admin_callback_raises(f) ==
    try_except(first_raised(<<db_function(f.db), safe_edit_message(f.tg),
                              safe_send_message(f.tg)>>),
               {"Exception"})

handle_callback_raises(f) ==
    first_raised(<<safe_answer_callback(f.tg),
                   db_function(f.db),
                   try_except(first_raised(<<handle_admin_callback_raises(f),
                                             db_function(f.db),
                                             safe_edit_message(f.tg),
                                             perform_search_raises(f)>>),
                              {"Exception"})>>)

handle_message_raises(f) ==
    try_except(first_raised(<<db_function(f.db), f.tg, perform_search_raises(f)>>),
               {"Exception"})

check_and_send_alerts_raises(f) ==
    try_except(first_raised(<<db_function(f.db),
                              try_except(first_raised(<<search_jobs_logic_raises(f),
                                                        db_function(f.db),
                                                        safe_send_message(f.tg)>>),
                                         {"Exception"})>>),
               {"Exception"})

UpdateKinds == {"start", "search", "help", "admin", "callback", "message", "alert_task"}

handler_raises(kind, f) ==
    CASE kind = "start" -> start_raises(f)
      [] kind \in {"search", "help", "admin"} -> command_raises(f)
      [] kind = "callback" -> handle_callback_raises(f)
      [] kind = "message" -> handle_message_raises(f)
      [] OTHER -> check_and_send_alerts_raises(f)

Failures ==
    [tg : TelegramFailures \cup {NoExc}, db : DatabaseFailures \cup {NoExc},
     scrape : ScrapeFailures \cup {NoExc}]
      \ {[tg |-> NoExc, db |-> NoExc, scrape |-> NoExc]}

\* A handler, or the alert task, runs for user u while some of its calls fail:
\* an exception that leaves it reaches error_handler; one that is caught is
\* logged. The users row is written when the database call works and the
\* handler is one that writes it.
FailingUpdate(u, kind, f) ==
    /\ handler.pc = "idle"
    /\ kind \in UpdateKinds
    /\ f \in Failures
    /\ answer' = [user |-> u,
                  text |-> IF handler_raises(kind, f) # NoExc
                           THEN "unhandled_exception" ELSE "error_logged"]
    /\ db' = IF f.db = NoExc /\ kind \in {"start", "callback", "message"}
             THEN get_or_create_user(db, today, u) ELSE db
    /\ UNCHANGED <<today, admin_id, broadcasts, job_cache, user_data, handler, pool_vars, last_search,
                   stored, sched_vars>>

\* A read of database.py while sqlite fails: what the function raises and what
\* it returns, the default of its except clause.
db_read(dbx, value, default) ==
    [raised |-> db_function(dbx), value |-> IF dbx = NoExc THEN value ELSE default]

\* The add_alert button while the database is down: get_or_create_user leaves
\* no row, count_alerts is read, and an exception in the branch is logged by
\* handle_callback.
CallbackAddAlertDbDown(u, dbx) ==
    /\ handler.pc = "idle"
    /\ dbx \in DatabaseFailures
    /\ LET count == db_read(dbx, count_alerts(db, u), 0)
       IN  IF first_raised(<<db_function(dbx), count.raised>>) # NoExc
           THEN /\ answer' = [user |-> u,
                              text |-> IF db_function(dbx) # NoExc
                                       THEN "unhandled_exception" ELSE "error_logged"]
                /\ UNCHANGED user_data
           ELSE IF count.value >= MAX_ALERTS
           THEN /\ answer' = [user |-> u, text |-> "alerts_full"]
                /\ UNCHANGED user_data
           ELSE /\ user_data' = [user_data EXCEPT ![u].awaiting_alert_keyword = TRUE]
                /\ answer' = [user |-> u, text |-> "send_alert_keyword"]
    /\ UNCHANGED <<db_vars, admin_id, broadcasts, job_cache, handler, pool_vars, last_search, stored,
                   sched_vars>>

-----------------------------------------------------------------------------
(* bot.py: check_and_send_alerts *)

NoAlert == [id |-> 0, user_id |-> 0, keyword |-> <<>>, country_code |-> "all", is_active |-> 0]

IdleSched == [pc |-> "idle", alerts |-> <<>>, alert |-> NoAlert, new_jobs |-> <<>>]

\* for job in results[:5]: the jobs not yet sent to the user are collected and
\* marked sent, one after the other.
RECURSIVE mark_new_jobs(_, _, _, _)
mark_new_jobs(d, day, user_id, jobs) ==
    IF jobs = <<>> THEN [db |-> d, new_jobs |-> <<>>]
    ELSE LET job == Head(jobs)
             job_url == job.job_url
         IN  IF job_url # "" /\ ~is_job_sent(d, user_id, job_url)
             THEN LET r == mark_new_jobs(mark_job_sent(d, day, user_id, job_url),
                                         day, user_id, Tail(jobs))
                  IN  [db |-> r.db, new_jobs |-> <<job>> \o r.new_jobs]
             ELSE mark_new_jobs(d, day, user_id, Tail(jobs))

\* A variant of the loop that goes through the whole result.
sched_after_search_whole_list(alert, rest, results) ==
    IF results = <<>>
    THEN /\ sched' = [pc |-> "next", alerts |-> rest, alert |-> NoAlert, new_jobs |-> <<>>]
         /\ UNCHANGED db
    ELSE LET r == mark_new_jobs(db, today, alert.user_id, results)
         IN  /\ db' = r.db
             /\ sched' = IF r.new_jobs = <<>>
                         THEN [pc |-> "next", alerts |-> rest, alert |-> NoAlert,
                               new_jobs |-> <<>>]
                         ELSE [pc |-> "header", alerts |-> rest, alert |-> alert,
                               new_jobs |-> r.new_jobs]

\* The body of the loop from the return of search_jobs_logic to the first send.
sched_after_search(alert, rest, results) ==
    IF results = <<>>
    THEN /\ sched' = [pc |-> "next", alerts |-> rest, alert |-> NoAlert, new_jobs |-> <<>>]
         /\ UNCHANGED db
    ELSE LET r == mark_new_jobs(db, today, alert.user_id, Take(results, ALERT_TOP))
         IN  /\ db' = r.db
             /\ sched' = IF r.new_jobs = <<>>
                         THEN [pc |-> "next", alerts |-> rest, alert |-> NoAlert,
                               new_jobs |-> <<>>]
                         ELSE [pc |-> "header", alerts |-> rest, alert |-> alert,
                               new_jobs |-> r.new_jobs]

\* The repeating job fires: the active alerts are read once for the run.
SchedStart ==
    /\ sched.pc = "idle"
    /\ LET alerts == get_all_active_alerts(db)
       IN  sched' = IF alerts = <<>> THEN IdleSched
                    ELSE [pc |-> "next", alerts |-> alerts, alert |-> NoAlert,
                          new_jobs |-> <<>>]
    /\ UNCHANGED <<db_vars, admin_id, broadcasts, job_cache, user_data, handler, pool_vars, last_search, stored,
                   answer, delivered, undelivered>>

\* The next alert of the run: its search is a cache hit, or goes to the executor.
SchedNextAlert ==
    /\ sched.pc = "next"
    /\ IF sched.alerts = <<>>
       THEN /\ sched' = IdleSched
            /\ UNCHANGED <<db, job_cache, pool_vars, last_search, stored>>
       ELSE LET alert == Head(sched.alerts)
                rest == Tail(sched.alerts)
                key == cache_key(alert.keyword, alert.country_code)
            IN  IF cache_contains(job_cache, key)
                THEN /\ search_hit("sched", alert.keyword, alert.country_code)
                     /\ sched_after_search(alert, rest, cache_value(job_cache, key))
                ELSE /\ search_submit("sched", alert.keyword, alert.country_code)
                     /\ sched' = [pc |-> "searching", alerts |-> rest, alert |-> alert,
                                  new_jobs |-> <<>>]
                     /\ UNCHANGED <<db, job_cache, last_search, stored>>
    /\ UNCHANGED <<today, admin_id, broadcasts, user_data, handler, answer, delivered, undelivered>>

SchedSearchDone ==
    /\ sched.pc = "searching"
    /\ SearchReady("sched")
    /\ \E unique \in {unique_jobs(gathered_jobs(searches["sched"]), {})} :
          /\ search_return("sched", FALSE, unique)
          /\ sched_after_search(sched.alert, sched.alerts, unique)
    /\ UNCHANGED <<today, admin_id, broadcasts, user_data, handler, answer, delivered, undelivered>>

SchedSearchTimeout ==
    /\ sched.pc = "searching"
    /\ SearchTimedOut("sched")
    /\ search_return("sched", TRUE, unique_jobs(<<>>, {}))
    /\ sched_after_search(sched.alert, sched.alerts, unique_jobs(<<>>, {}))
    /\ UNCHANGED <<today, admin_id, broadcasts, user_data, handler, answer, delivered, undelivered>>

\* The header message: ok says whether safe_send_message returned a message; the
\* return value is not looked at.
SchedSendHeader(ok) ==
    /\ sched.pc = "header"
    /\ sched' = [sched EXCEPT !.pc = "jobs"]
    /\ undelivered' = IF ok THEN undelivered
                      ELSE undelivered \cup {[alert |-> sched.alert.id, message |-> "header"]}
    /\ UNCHANGED <<db_vars, admin_id, broadcasts, job_cache, user_data, handler, pool_vars, last_search, stored,
                   answer, delivered>>

\* One job message: ok says whether safe_send_message returned a message.
SchedSendJob(ok) ==
    /\ sched.pc = "jobs"
    /\ LET alert == sched.alert
           job == Head(sched.new_jobs)
           rest == Tail(sched.new_jobs)
           pair == <<alert.user_id, job.job_url>>
           next == [pc |-> "next", alerts |-> sched.alerts, alert |-> NoAlert,
                    new_jobs |-> <<>>]
       IN  IF ok
           THEN /\ delivered' = [p \in DOMAIN delivered \cup {pair} |->
                                    IF p = pair
                                    THEN (IF p \in DOMAIN delivered THEN delivered[p] ELSE 0) + 1
                                    ELSE delivered[p]]
                /\ UNCHANGED undelivered
                /\ IF rest = <<>>
                   THEN /\ db' = update_alert_sent(db, today, alert.id)
                        /\ sched' = next
                   ELSE /\ sched' = [sched EXCEPT !.new_jobs = rest]
                        /\ UNCHANGED db
           ELSE /\ db' = update_alert_sent(remove_alert(db, alert.user_id, alert.id),
                                           today, alert.id)
                /\ sched' = next
                /\ undelivered' = undelivered \cup {[alert |-> alert.id, message |-> "job"]}
                /\ UNCHANGED delivered
    /\ UNCHANGED <<today, admin_id, broadcasts, job_cache, user_data, handler, pool_vars, last_search, stored,
                   answer>>

-----------------------------------------------------------------------------
(* Initial state and specifications *)

InitMemory ==
    /\ today = 1
    /\ job_cache = <<>>
    /\ user_data = [u \in Users |-> NewUserData]
    /\ handler = IdleHandler
    /\ searches = [c \in Callers |-> IdleSearch]
    /\ pool_queue = <<>>
    /\ orphans = 0
    /\ last_search = NoSearch
    /\ stored = <<>>
    /\ answer = [user |-> 0, text |-> "none"]
    /\ sched = IdleSched
    /\ delivered = <<>>
    /\ undelivered = {}

Init ==
    /\ db = EmptyDb
    /\ admin_id = ADMIN_ID
    /\ broadcasts = <<>>
    /\ InitMemory

T_dev == <<"d", "e", "v">>
T_Dev == <<"D", "e", "v">>

SearchTexts == {T_dev, T_Dev}

SearchSelectors == {"qa"}

SearchUsers == {1}

PoolStep ==
    \/ \E c \in Callers, cc \in CountryCodes :
          \E o \in ScrapeOutcomes(cc) : TaskFinish(c, cc, o)
    \/ \E o \in ScrapeOutcomes(COUNTRIES[1]) : OrphanFinish(COUNTRIES[1], o)
    \/ Tick

HandlerStep ==
    \/ HandlerSearchDone
    \/ HandlerSearchTimeout

SchedStep ==
    \/ SchedStart
    \/ SchedNextAlert
    \/ SchedSearchDone
    \/ SchedSearchTimeout
    \/ \E ok \in BOOLEAN : SchedSendHeader(ok)
    \/ \E ok \in BOOLEAN : SchedSendJob(ok)

NextSearch ==
    \/ \E u \in SearchUsers, cc \in SearchSelectors : CallbackCountry(u, cc)
    \/ \E u \in SearchUsers : Message(u, T_dev)
    \/ PoolStep
    \/ HandlerStep

SpecSearch == Init /\ [][NextSearch]_vars

\* The jobs of a Qatar search whose scrape call returned its frame.
QaOutcome == [raised |-> FALSE, rows |-> ScrapedRows("qa")]

QaJobs == unique_jobs(search_single_country(QaOutcome, "qa"), {})

\* The state after user 1 has chosen Qatar and searched once.
InitAfterSearch ==
    /\ db = log_search(get_or_create_user(EmptyDb, 1, 1), 1, 1, T_dev, "qa", Len(QaJobs))
    /\ today = 1
    /\ admin_id = ADMIN_ID
    /\ broadcasts = <<>>
    /\ job_cache = cache_set(<<>>, cache_key(T_dev, "qa"), QaJobs)
    /\ user_data = [u \in Users |->
                       IF u = 1
                       THEN [NewUserData EXCEPT !.country = "qa",
                                                !.results = <<trimmed_results(QaJobs)>>]
                       ELSE NewUserData]
    /\ handler = IdleHandler
    /\ searches = [c \in Callers |-> IdleSearch]
    /\ pool_queue = <<>>
    /\ orphans = 0
    /\ last_search = [caller |-> "handler", term |-> T_dev, cc |-> "qa",
                      from_cache |-> FALSE, timed_out |-> FALSE,
                      tasks |-> [cc \in {"qa"} |->
                                    [st |-> "done", invoked |-> 1, outcome |-> QaOutcome]],
                      result |-> QaJobs]
    /\ stored = <<[term |-> T_dev, cc |-> "qa", value |-> QaJobs, age |-> 0]>>
    /\ answer = [user |-> 1, text |-> "results_page"]
    /\ sched = IdleSched
    /\ delivered = <<>>
    /\ undelivered = {}

\* The buttons user 1 sees under the results, and a button of an older message.
SaveJobIds == {<<"md5", "qa1">>, <<"md5", "nan">>, <<"md5", "gone">>}


\* User 1 holds the results; user 2 presses the same buttons without them.
NextFav ==
    \/ \E u \in {1, 2}, j \in SaveJobIds : CallbackSaveJob(u, j)
    \/ \E u \in {1, 2}, id \in 1..MaxDelId : CallbackDelFav(u, id)

SpecFav == InitAfterSearch /\ [][NextFav]_vars

\* One user manages alerts: two keywords, three country selectors.
T_a == <<"a">>
T_b == <<"b">>

AlertTexts == {T_a, T_b}

AlertSelectors == {"qa", "ae", "all"}

NextAlert ==
    \/ CallbackAddAlert(1)
    \/ \E t \in AlertTexts : Message(1, t)
    \/ \E cc \in AlertSelectors : CallbackAlertCountry(1, cc)
    \/ \E id \in 1..MaxDelId : CallbackDelAlert(1, id)

SpecAlert == Init /\ [][NextAlert]_vars

\* The state after user 1 has added the alerts ("a", qa) and ("a", ae).
InitWithAlerts ==
    /\ db = add_alert(add_alert(get_or_create_user(EmptyDb, 1, 1), 1, 1, T_a, "qa"),
                      1, 1, T_a, "ae")
    /\ today = 1
    /\ admin_id = ADMIN_ID
    /\ broadcasts = <<>>
    /\ job_cache = <<>>
    /\ user_data = [u \in Users |-> NewUserData]
    /\ handler = IdleHandler
    /\ searches = [c \in Callers |-> IdleSearch]
    /\ pool_queue = <<>>
    /\ orphans = 0
    /\ last_search = NoSearch
    /\ stored = <<>>
    /\ answer = [user |-> 1, text |-> "alert_added"]
    /\ sched = IdleSched
    /\ delivered = <<>>
    /\ undelivered = {}

\* The alert job runs again and again; the user may delete the first alert.
NextSched ==
    \/ SchedStep
    \/ PoolStep
    \/ \E id \in 1..MaxDelId : CallbackDelAlert(1, id)

SpecSched == InitWithAlerts /\ [][NextSched]_vars

\* The state after user 1 has chosen Qatar and added the alert ("dev", qa).
InitWithAlertDev ==
    /\ db = add_alert(get_or_create_user(EmptyDb, 1, 1), 1, 1, T_dev, "qa")
    /\ today = 1
    /\ admin_id = ADMIN_ID
    /\ broadcasts = <<>>
    /\ job_cache = <<>>
    /\ user_data = [u \in Users |->
                       IF u = 1 THEN [NewUserData EXCEPT !.country = "qa"] ELSE NewUserData]
    /\ handler = IdleHandler
    /\ searches = [c \in Callers |-> IdleSearch]
    /\ pool_queue = <<>>
    /\ orphans = 0
    /\ last_search = NoSearch
    /\ stored = <<>>
    /\ answer = [user |-> 1, text |-> "alert_added"]
    /\ sched = IdleSched
    /\ delivered = <<>>
    /\ undelivered = {}

\* The user's searches and the alert job ask for the same key.
NextCache ==
    \/ \E t \in SearchTexts : Message(1, t)
    \/ HandlerStep
    \/ SchedStep
    \/ PoolStep

SpecCache == InitWithAlertDev /\ [][NextCache]_vars

\* The state after user 1 has chosen Qatar and added the alert ("dev", all).
InitPool ==
    /\ db = add_alert(get_or_create_user(EmptyDb, 1, 1), 1, 1, T_dev, "all")
    /\ today = 1
    /\ admin_id = ADMIN_ID
    /\ broadcasts = <<>>
    /\ job_cache = <<>>
    /\ user_data = [u \in Users |->
                       IF u = 1 THEN [NewUserData EXCEPT !.country = "qa"] ELSE NewUserData]
    /\ handler = IdleHandler
    /\ searches = [c \in Callers |-> IdleSearch]
    /\ pool_queue = <<>>
    /\ orphans = 0
    /\ last_search = NoSearch
    /\ stored = <<>>
    /\ answer = [user |-> 1, text |-> "alert_added"]
    /\ sched = IdleSched
    /\ delivered = <<>>
    /\ undelivered = {}

\* The user searches Qatar while the alert job scrapes every country; a scrape call
\* returns its frame or goes on running, and the alert messages are delivered.
NextPool ==
    \/ Message(1, T_Dev)
    \/ HandlerStep
    \/ SchedStart
    \/ SchedNextAlert
    \/ SchedSearchDone
    \/ SchedSearchTimeout
    \/ SchedSendHeader(TRUE)
    \/ SchedSendJob(TRUE)
    \/ \E c \in Callers, cc \in CountryCodes :
          TaskFinish(c, cc, [raised |-> FALSE, rows |-> ScrapedRows(cc)])
    \/ \E o \in ScrapeOutcomes(COUNTRIES[1]) : OrphanFinish(COUNTRIES[1], o)
    \/ Tick

SpecPool == InitPool /\ [][NextPool]_vars

\* The user searches Qatar and the alert job scrapes every country, on one day and
\* on the next; a scrape call of the user's search returns its frame or raises,
\* so that a search ends with jobs or with none.
NextLog ==
    \/ Message(1, T_Dev)
    \/ HandlerSearchDone
    \/ SchedStart
    \/ SchedNextAlert
    \/ SchedSearchDone
    \/ SchedSendHeader(TRUE)
    \/ SchedSendJob(TRUE)
    \/ \E o \in ScrapeOutcomes("qa") : TaskFinish("handler", "qa", o)
    \/ \E cc \in CountryCodes :
          TaskFinish("sched", cc, [raised |-> FALSE, rows |-> ScrapedRows(cc)])
    \/ NextDay

SpecLog == InitPool /\ [][NextLog]_vars

\* After a search the user saves and deletes favourites, adds and deletes an
\* alert and repeats the search; a second user starts the bot.
NextStats ==
    \/ CallbackSaveJob(1, <<"md5", "qa1">>)
    \/ \E id \in 1..MaxDelId : CallbackDelFav(1, id)
    \/ CallbackAddAlert(1)
    \/ \E t \in {T_a, T_dev} : Message(1, t)
    \/ CallbackAlertCountry(1, "qa")
    \/ \E id \in 1..MaxDelId : CallbackDelAlert(1, id)
    \/ Start(2)

SpecStats == InitAfterSearch /\ [][NextStats]_vars

\* User 1 saves a job of their results; both users add an alert for Qatar; both
\* press the delete and view buttons of every id, the other user's included.
NextOwner ==
    \/ CallbackSaveJob(1, <<"md5", "qa1">>)
    \/ \E u \in {1, 2} : CallbackAddAlert(u)
    \/ \E u \in {1, 2} : Message(u, T_a)
    \/ \E u \in {1, 2} : CallbackAlertCountry(u, "qa")
    \/ \E u \in {1, 2}, id \in 1..MaxDelId : CallbackDelFav(u, id)
    \/ \E u \in {1, 2}, id \in 1..MaxDelId : CallbackViewFav(u, id)
    \/ \E u \in {1, 2}, id \in 1..MaxDelId : CallbackDelAlert(u, id)

SpecOwner == InitAfterSearch /\ [][NextOwner]_vars

\* After a search the user saves a job, adds an alert, sets preferred keywords
\* and toggles the preferred countries.
NextPrefs ==
    \/ CallbackSaveJob(1, <<"md5", "qa1">>)
    \/ CallbackAddAlert(1)
    \/ CallbackAlertCountry(1, "qa")
    \/ CallbackSetPrefKeywords(1)
    \/ Message(1, T_a)
    \/ \E cc \in CountryCodes : CallbackToggleCountry(1, cc)

SpecPrefs == InitAfterSearch /\ [][NextPrefs]_vars

\* mark_job_sent, called for any user and URL, again and again.
MarkJobSent(user_id, job_url) ==
    /\ db' = mark_job_sent(db, today, user_id, job_url)
    /\ UNCHANGED <<today, admin_id, broadcasts, job_cache, user_data, handler, pool_vars, last_search,
                   stored, answer, sched_vars>>

MarkUrls == {"x", "qa1", "ae1"}

NextMarks == \E u \in Users, url \in MarkUrls : MarkJobSent(u, url)

SpecMarks == Init /\ [][NextMarks]_vars

\* Every user sends the four commands, presses buttons and sends a text, in any
\* order, from an empty database.
NextUsers ==
    \E u \in Users :
        \/ Start(u)
        \/ SearchCommand(u)
        \/ HelpCommand(u)
        \/ AdminCommand(u)
        \/ CallbackCountry(u, "qa")
        \/ CallbackSetPrefKeywords(u)
        \/ CallbackDelFav(u, 1)
        \/ Message(u, T_a)

SpecUsers == Init /\ [][NextUsers]_vars

\* The handlers run with and without failing calls; user 1 has five alerts.
InitFaults ==
    /\ db = add_alert(add_alert(add_alert(add_alert(add_alert(
                 get_or_create_user(EmptyDb, 1, 1),
                 1, 1, T_a, "qa"), 1, 1, T_a, "ae"), 1, 1, T_a, "sa"), 1, 1, T_a, "bh"),
                 1, 1, T_a, "all")
    /\ admin_id = ADMIN_ID
    /\ broadcasts = <<>>
    /\ InitMemory

NextFaults ==
    \/ \E u \in Users, kind \in UpdateKinds, f \in Failures : FailingUpdate(u, kind, f)
    \/ \E u \in Users, dbx \in DatabaseFailures : CallbackAddAlertDbDown(u, dbx)
    \/ \E u \in Users : Start(u)
    \/ \E u \in Users : HelpCommand(u)
    \/ \E u \in Users : CallbackAddAlert(u)
    \/ \E u \in Users : Message(u, T_a)

SpecFaults == InitFaults /\ [][NextFaults]_vars

\* Two users add alerts for Qatar, typing the keyword in either case, and press
\* delete buttons, those of the other user's alerts included.
NextRemove ==
    \/ \E u \in {1, 2} : CallbackAddAlert(u)
    \/ \E u \in {1, 2}, t \in {T_a, <<"A">>} : Message(u, t)
    \/ \E u \in {1, 2} : CallbackAlertCountry(u, "qa")
    \/ \E u \in {1, 2}, id \in 1..MaxDelId : CallbackDelAlert(u, id)

SpecRemove == Init /\ [][NextRemove]_vars

\* The operator the environment names: none, or user 1.
AdminIds == {ADMIN_ID, 1}

InitAdmin ==
    /\ db = EmptyDb
    /\ admin_id \in AdminIds
    /\ broadcasts = <<>>
    /\ InitMemory

\* Two users try the dashboard, choose a country and send a one-letter text.
NextAdmin ==
    \/ \E u \in {1, 2} : AdminCommand(u)
    \/ \E u \in {1, 2}, data \in AdminData : CallbackAdmin(u, data)
    \/ \E u \in {1, 2} : Message(u, T_a)
    \/ \E u \in {1, 2} : CallbackCountry(u, "qa")

SpecAdmin == InitAdmin /\ [][NextAdmin]_vars

\* A job title and a text too short to be one.
MenuTexts == {T_dev, T_a}

\* One user, who may be the operator, presses the buttons that make the bot wait
\* for a text (alert keyword, preferred keywords, broadcast), chooses a search
\* country and sends a job title; the scrape calls return a frame.
NextMenu ==
    \/ CallbackAddAlert(1)
    \/ CallbackSetPrefKeywords(1)
    \/ \E data \in {"admin_broadcast", "admin_cancel_broadcast"} : CallbackAdmin(1, data)
    \/ CallbackCountry(1, "qa")
    \/ \E t \in MenuTexts : Message(1, t)
    \/ \E cc \in CountryCodes :
          TaskFinish("handler", cc, [raised |-> FALSE, rows |-> ScrapedRows(cc)])
    \/ HandlerSearchDone

SpecMenu == InitAdmin /\ [][NextMenu]_vars

\* One user repeats one search whose scrape calls return a frame or never return.
NextSearchFair ==
    \/ Message(1, T_dev)
    \/ \E cc \in CountryCodes :
          TaskFinish("handler", cc, [raised |-> FALSE, rows |-> ScrapedRows(cc)])
    \/ \E o \in ScrapeOutcomes(COUNTRIES[1]) : OrphanFinish(COUNTRIES[1], o)
    \/ Tick
    \/ HandlerStep

\* The event loop resumes a coroutine that is ready and the clock goes on; nothing
\* makes a scrape call in a worker thread ever return.
SpecSearchFair ==
    /\ Init
    /\ [][NextSearchFair]_vars
    /\ WF_vars(Tick)
    /\ WF_vars(HandlerSearchDone)
    /\ WF_vars(HandlerSearchTimeout)

-----------------------------------------------------------------------------
(* Properties of search_jobs_logic *)

Urls(jobs) == {jobs[i].job_url : i \in DOMAIN jobs}

NoDuplicateUrls(jobs) ==
    \A i, j \in DOMAIN jobs : i # j => jobs[i].job_url # jobs[j].job_url

\* The last return of search_jobs_logic came from the executor, not from the cache.
LastWasMiss == last_search.caller # "none" /\ ~last_search.from_cache

Succeeded(tasks) ==
    {cc \in DOMAIN tasks : tasks[cc].st = "done" /\ ~tasks[cc].outcome.raised}

Raised(tasks) ==
    {cc \in DOMAIN tasks : tasks[cc].st = "done" /\ tasks[cc].outcome.raised}

ExpectedCountries(country_code) ==
    IF country_code = "all" THEN {"qa", "ae", "sa", "bh"} ELSE {country_code}

\* C5: whatever the scrape calls delivered, the list search_jobs_logic returns holds
\* at most one entry per distinct job URL.
C5_ReturnedUrlsDistinct == NoDuplicateUrls(last_search.result)

\* Two countries of an "all" search delivered the posting "x", twice each.
C5_Witness ==
    /\ LastWasMiss
    /\ last_search.cc = "all"
    /\ {"qa", "ae"} \subseteq Succeeded(last_search.tasks)
    /\ "x" \in Urls(last_search.result)

\* C7 as stated: on a cache miss every country of the selector, and no other, has its
\* scrape call invoked exactly once.
C7_Original ==
    LastWasMiss =>
        /\ DOMAIN last_search.tasks = ExpectedCountries(last_search.cc)
        /\ \A cc \in DOMAIN last_search.tasks : last_search.tasks[cc].invoked = 1

\* C7, amended: on a cache miss one call is submitted per country of the selector and
\* for no other location; no call is invoked more than once; every call is invoked
\* exactly once unless the search timed out while the call was still waiting for a
\* worker.
C7_OneCallPerCountry ==
    LastWasMiss =>
        /\ DOMAIN last_search.tasks = ExpectedCountries(last_search.cc)
        /\ \A cc \in DOMAIN last_search.tasks :
              /\ last_search.tasks[cc].invoked <= 1
              /\ last_search.tasks[cc].invoked = 0 =>
                    last_search.timed_out /\ last_search.tasks[cc].st = "queued"

\* A single-country search that missed the cache and returned in time.
C7_Witness ==
    /\ LastWasMiss
    /\ ~last_search.timed_out
    /\ last_search.cc = "qa"
    /\ last_search.tasks["qa"].invoked = 1

\* C8 as stated: in an "all" search in which a scrape call raised, the raising
\* country contributes nothing and every job URL of every country whose call
\* succeeded is in the returned list.
C8_Original ==
    (LastWasMiss /\ last_search.cc = "all" /\ Raised(last_search.tasks) # {}) =>
        /\ \A i \in DOMAIN last_search.result :
              last_search.result[i].country_name \notin Raised(last_search.tasks)
        /\ \A cc \in Succeeded(last_search.tasks) :
              Urls(search_single_country(last_search.tasks[cc].outcome, cc)) \ {""}
                  \subseteq Urls(last_search.result)

\* C8, amended: the same, for an "all" search that returns before the timeout.
C8_FailedCountryOnlyDropsItself ==
    (LastWasMiss /\ last_search.cc = "all" /\ ~last_search.timed_out
        /\ Raised(last_search.tasks) # {}) =>
        /\ \A i \in DOMAIN last_search.result :
              last_search.result[i].country_name \notin Raised(last_search.tasks)
        /\ \A cc \in Succeeded(last_search.tasks) :
              Urls(search_single_country(last_search.tasks[cc].outcome, cc)) \ {""}
                  \subseteq Urls(last_search.result)
        /\ NoDuplicateUrls(last_search.result)

\* One country raised, another succeeded, the search returned in time.
C8_Witness ==
    /\ LastWasMiss
    /\ last_search.cc = "all"
    /\ ~last_search.timed_out
    /\ Raised(last_search.tasks) # {}
    /\ Succeeded(last_search.tasks) # {}
    /\ last_search.result # <<>>

\* The lists the scrape calls of a returned search delivered, in the order qa, ae,
\* sa, bh, joined.
PerCountryJobs(ls) ==
    LET order == <<"qa", "ae", "sa", "bh">>
    IN  Concat([i \in DOMAIN order |->
                   IF order[i] \in DOMAIN ls.tasks /\ ls.tasks[order[i]].st = "done"
                   THEN search_single_country(ls.tasks[order[i]].outcome, order[i])
                   ELSE <<>>])

\* The jobs whose URL did not occur earlier in the list.
FirstOccurrences(jobs) ==
    PickFrom(jobs, {i \in DOMAIN jobs :
                       \A j \in DOMAIN jobs : j < i => jobs[j].job_url # jobs[i].job_url}, 1)

\* C11 as stated: the list a search returns after its scrape calls is the joined
\* per-country lists without the records whose URL occurred earlier.
C11_Original ==
    (LastWasMiss /\ ~last_search.timed_out) =>
        last_search.result = FirstOccurrences(PerCountryJobs(last_search))

\* C11, amended: the list a search returns after its scrape calls is the joined
\* per-country lists (qa, ae, sa, bh) without the records that have no URL and
\* without the records whose URL occurred earlier, in the order of the joined
\* list; a search that timed out returns the empty list.
C11_FirstOccurrenceOfEachUrl ==
    LastWasMiss =>
        IF last_search.timed_out THEN last_search.result = <<>>
        ELSE last_search.result =
                 SelectSeq(FirstOccurrences(PerCountryJobs(last_search)),
                           LAMBDA job : job.job_url # "")

\* An "all" search returned in time: Qatar raised, the posting "x" of the UAE is
\* kept and the same posting of Saudi Arabia is dropped.
C11_Witness ==
    /\ LastWasMiss
    /\ ~last_search.timed_out
    /\ last_search.cc = "all"
    /\ "qa" \in Raised(last_search.tasks)
    /\ {"ae", "sa"} \subseteq Succeeded(last_search.tasks)
    /\ \E i \in DOMAIN last_search.result :
          last_search.result[i] = [job_url |-> "x", country_name |-> "ae"]
    /\ \A i \in DOMAIN last_search.result :
          last_search.result[i] # [job_url |-> "x", country_name |-> "sa"]

\* C9: every call of search_jobs_logic returns: a call that waits for its scrape
\* calls has returned a list by the time SEARCH_TIMEOUT has elapsed, also when some
\* of the scrape calls never complete.
C9_SearchReturns ==
    (searches["handler"].status = "waiting") ~> (searches["handler"].status = "idle")

\* A search returned the empty list at the timeout with a scrape call still running.
C9_Witness ==
    /\ LastWasMiss
    /\ last_search.timed_out
    /\ last_search.result = <<>>
    /\ \E cc \in DOMAIN last_search.tasks : last_search.tasks[cc].st = "running"

\* C10 as stated: the list search_jobs_logic stores in the cache and returns has at
\* most MAX_RESULTS entries.
C10_Original ==
    /\ Len(last_search.result) <= MAX_RESULTS
    /\ \A i \in DOMAIN stored : Len(stored[i].value) <= MAX_RESULTS

\* C10, amended: every list perform_search keeps for paging and saving has at most
\* MAX_RESULTS entries.
C10_KeptListWithinMaxResults ==
    \A u \in Users : \A i \in DOMAIN user_data[u].results :
        Len(user_data[u].results[i]) <= MAX_RESULTS

\* A search returned more than MAX_RESULTS jobs and the user holds the cut list.
C10_Witness ==
    /\ Len(last_search.result) > MAX_RESULTS
    /\ \E u \in Users : \E i \in DOMAIN user_data[u].results :
          Len(user_data[u].results[i]) = MAX_RESULTS

-----------------------------------------------------------------------------
(* Properties of the favourites *)

\* InitAfterSearch is a state of the program: SpecSearch reaches it.
NotAfterSearch == ~InitAfterSearch

OwnStoredJobs(u, job_id) ==
    {job \in UNION {{user_data[u].results[i][k] : k \in DOMAIN user_data[u].results[i]} :
                       i \in DOMAIN user_data[u].results} :
        generate_job_id(job) = job_id}

\* A savejob_ press adds at most one favourite, of the pressing user, for a job of
\* their own stored lists with the pressed id.
SavesOnlyOwnStoredJob(u, job_id) ==
    /\ db.favorites \subseteq db'.favorites
    /\ \A f \in db'.favorites \ db.favorites :
          /\ f.user_id = u
          /\ \E job \in OwnStoredJobs(u, job_id) : f.job_url = safe_str(job.job_url)

\* C33 as stated: a savejob_ press saves only a job of the user's own stored
\* lists with that id; without such a job the press is answered with the failure
\* notice and leaves the favourites and every daily counter as they are.
C33_SaveOnlyStoredJob ==
    [][\A u \in Users, job_id \in SaveJobIds :
          CallbackSaveJob(u, job_id) =>
            /\ SavesOnlyOwnStoredJob(u, job_id)
            /\ OwnStoredJobs(u, job_id) = {} =>
                  /\ answer' = [user |-> u, text |-> "cannot_save"]
                  /\ db'.favorites = db.favorites
                  /\ db'.daily_stats = db.daily_stats]_vars

\* C33, amended: without such a job the press leaves the favourites as they are
\* and every daily counter too, except that a user pressing a button for the
\* first time is registered and counted under new_users.
C33_SaveOnlyStoredJobAmended ==
    [][\A u \in Users, job_id \in SaveJobIds :
          CallbackSaveJob(u, job_id) =>
            /\ SavesOnlyOwnStoredJob(u, job_id)
            /\ OwnStoredJobs(u, job_id) = {} =>
                  /\ answer' = [user |-> u, text |-> "cannot_save"]
                  /\ db'.favorites = db.favorites
                  /\ db'.daily_stats =
                        (IF u \in db.users THEN db
                         ELSE increment_daily_stat_conn(db, today, "new_users")).daily_stats]_vars

\* User 1 saved a job of their list; user 2, who holds no list, pressed a save
\* button, was refused and is registered now.
C33_Witness ==
    /\ \E f \in db.favorites : f.user_id = 1
    /\ user_data[2].results = <<>>
    /\ 2 \in db.users
    /\ FavoritesOf(db, 2) = {}
    /\ answer = [user |-> 2, text |-> "cannot_save"]

-----------------------------------------------------------------------------
(* Properties of the alerts *)

\* C2: no user ever holds more than MAX_ALERTS active alerts, whatever the order of
\* add_alert presses, keyword messages, alertcountry_ selections and delalert presses.
C2_ActiveAlertsWithinCap ==
    \A u \in Users : count_alerts(db, u) <= MAX_ALERTS

\* InitWithAlerts is a state of the program: SpecAlert reaches it.
NotWithAlerts == ~InitWithAlerts

\* The (user, URL) pairs that have a marker.
SentPairs ==
    {<<db.sent_jobs[i].user_id, db.sent_jobs[i].job_url>> : i \in DOMAIN db.sent_jobs}

AlertRow(id) == CHOOSE a \in db.alerts : a.id = id

C15_AlertsOnlySoftDeleted ==
    [][/\ \A a \in db.alerts :
             \/ a \in db'.alerts
             \/ a.is_active = 1 /\ [a EXCEPT !.is_active = 0] \in db'.alerts
       /\ \A u \in Users, id \in 1..MaxDelId :
             CallbackDelAlert(u, id) =>
                \A a \in db.alerts : (a.id # id \/ a.user_id # u) => a \in db'.alerts
       /\ \A b \in db'.alerts :
             (b.is_active = 1 /\ \E a \in db.alerts : a.id = b.id) => b \in db.alerts
       /\ \A a, b \in db'.alerts : a.id = b.id => a = b]_vars

\* An alert was removed and the same keyword and country were added again: the
\* old row is inactive and a new row is active.
C15_Witness ==
    \E a, b \in db.alerts :
        /\ a.id # b.id
        /\ a.user_id = b.user_id /\ a.keyword = b.keyword
        /\ a.country_code = b.country_code
        /\ a.is_active = 0 /\ b.is_active = 1

\* C16: the table of sent-job markers only grows, no row of it is removed or
\* changed, and it never holds two rows for one (user, job URL) pair, however
\* often mark_job_sent is called for a pair.
C16_MarkersAppendOnlyUnique ==
    /\ [](\A i, j \in DOMAIN db.sent_jobs :
             i # j => db.sent_jobs[i] # db.sent_jobs[j])
    /\ [][/\ Len(db'.sent_jobs) >= Len(db.sent_jobs)
           /\ \A i \in DOMAIN db.sent_jobs : db'.sent_jobs[i] = db.sent_jobs[i]]_vars

\* Every pair of the two users and the three URLs has been marked: any further
\* call repeats a pair.
C16_Witness ==
    /\ Len(db.sent_jobs) = 6
    /\ \A url \in MarkUrls : {<<1, url>>, <<2, url>>} \subseteq SentPairs

\* C12: when the alert job is between two alerts or has ended its run, the job
\* URLs marked sent for a user are exactly the job URLs whose message was delivered
\* to that user: nothing is marked without having been delivered.
C12_MarkedEqualsDelivered ==
    sched.pc \in {"idle", "next"} => SentPairs = DOMAIN delivered

-----------------------------------------------------------------------------
(* Properties of the cache *)

\* The normalised key of a search: the query lowercased and trimmed, and the selector.
NormKey(term, cc) == <<str_strip(str_lower(term)), cc>>

\* The stores of earlier searches with the key of (term, cc), younger than CACHE_TTL.
LiveStores(term, cc) ==
    {i \in DOMAIN stored : /\ NormKey(stored[i].term, stored[i].cc) = NormKey(term, cc)
                           /\ stored[i].age < CACHE_TTL}

Newest(S) == CHOOSE i \in S : \A j \in S : j <= i

\* The step in which a search of the caller is answered from the cache.
HitStep(c) ==
    /\ last_search' # last_search
    /\ last_search'.caller = c
    /\ last_search'.from_cache

\* The step in which a search of the caller hands scrape calls to the executor.
MissStep(c) == searches[c].status = "idle" /\ searches'[c].status = "waiting"

CacheHolds(term, cc) ==
    \E i \in DOMAIN job_cache : job_cache[i].key = NormKey(term, cc)

ReturnStep(c) == searches[c].status = "waiting" /\ searches'[c].status = "idle"

\* C19: a search answered from the cache returns a list that was stored under
\* its normalised key less than CACHE_TTL ago; a search that finds no such store
\* runs its scrape calls, and when it returns its list is in the cache under the
\* key with age 0.
C19_ExpiredEntryNotReturned ==
    [][\A c \in Callers :
          /\ HitStep(c) =>
                \E i \in DOMAIN stored :
                   /\ NormKey(stored[i].term, stored[i].cc)
                         = NormKey(last_search'.term, last_search'.cc)
                   /\ stored[i].age < CACHE_TTL
                   /\ stored[i].value = last_search'.result
          /\ ReturnStep(c) =>
                /\ stored' # <<>>
                /\ stored'[Len(stored')] =
                      [term |-> searches[c].term, cc |-> searches[c].cc,
                       value |-> last_search'.result, age |-> 0]
                /\ \E i \in DOMAIN job_cache' :
                      /\ job_cache'[i].key = NormKey(searches[c].term, searches[c].cc)
                      /\ job_cache'[i].value = last_search'.result
                      /\ job_cache'[i].age = 0
                /\ \A i, j \in DOMAIN job_cache' :
                      i # j => job_cache'[i].key # job_cache'[j].key]_vars

\* The user searched twice for one key; the second search, issued after the
\* entry of the first had expired, ran its scrape call again and stored its list.
C19_Witness ==
    /\ Len(db.search_history) = 2
    /\ db.search_history[1].search_term = db.search_history[2].search_term
    /\ last_search.caller = "handler"
    /\ ~last_search.from_cache
    /\ ~last_search.timed_out
    /\ last_search.tasks["qa"].invoked = 1
    /\ Len(stored) = 1
    /\ stored[1].age = 0
    /\ sched.pc = "idle" /\ delivered = <<>>

\* The last search ran its scrape calls and got nothing from them: it timed out,
\* or every call raised.
LastSearchFailed ==
    /\ last_search.caller \in Callers
    /\ ~last_search.from_cache
    /\ \/ last_search.timed_out
       \/ \A cc \in DOMAIN last_search.tasks : last_search.tasks[cc].outcome.raised

\* C26: the search that follows a timed-out or all-failed search of the same
\* normalised key is not answered from the cache.
C26_FailedSearchNotRemembered ==
    [][\A c \in Callers :
          (/\ LastSearchFailed
           /\ NormKey(last_search'.term, last_search'.cc)
                 = NormKey(last_search.term, last_search.cc)) => ~HitStep(c)]_vars

\* C20: a scrape call that ends after its search has returned changes neither
\* the cache nor the list any search returned; a search that timed out returns
\* and stores the empty list; and the cache gets a new list under a key only in
\* the step in which a search for that key returns, and it is the list returned.
C20_LateResultsDiscarded ==
    [][/\ orphans' < orphans =>
             UNCHANGED <<job_cache, stored, last_search, user_data, answer, db>>
       /\ \A c \in Callers :
             (ReturnStep(c) /\ last_search'.timed_out) =>
                /\ last_search'.result = <<>>
                /\ cache_value(job_cache', cache_key(searches[c].term, searches[c].cc))
                      = <<>>
                /\ orphans' = orphans + Cardinality(RunningOf(searches[c]))
       /\ \A i \in DOMAIN job_cache' :
             (~\E j \in DOMAIN job_cache :
                   /\ job_cache[j].key = job_cache'[i].key
                   /\ job_cache[j].value = job_cache'[i].value) =>
                \E c \in Callers :
                   /\ ReturnStep(c)
                   /\ job_cache'[i].key = NormKey(searches[c].term, searches[c].cc)
                   /\ job_cache'[i].value = last_search'.result]_vars

\* The user's search timed out while its scrape call was running; the call has
\* ended since, and the cache still holds the empty list under the key.
C20_Witness ==
    /\ last_search.caller = "handler"
    /\ last_search.timed_out
    /\ \E cc \in DOMAIN last_search.tasks : last_search.tasks[cc].st = "running"
    /\ orphans = 0
    /\ \A c \in Callers : searches[c].status = "idle"
    /\ cache_contains(job_cache, cache_key(last_search.term, last_search.cc))
    /\ cache_value(job_cache, cache_key(last_search.term, last_search.cc)) = <<>>
    /\ answer.text = "no_jobs_found"

-----------------------------------------------------------------------------
(* Properties of the worker pool *)

\* The scrape calls in a worker thread: those of the waiting searches and those
\* left behind by searches that have returned.
Executing ==
    orphans + Cardinality({<<c, cc>> \in Callers \X CountryCodes :
                              /\ cc \in DOMAIN searches[c].tasks
                              /\ searches[c].tasks[cc].st = "running"})

\* The scrape calls handed to the executor that no worker has taken.
Queued ==
    {<<c, cc>> \in Callers \X CountryCodes :
        /\ cc \in DOMAIN searches[c].tasks
        /\ searches[c].tasks[cc].st = "queued"}

\* C21: at most MAX_WORKERS scrape calls execute at any time, over the user's
\* search, the alert job's search and the calls of searches that have returned;
\* a call waits in the queue only while MAX_WORKERS calls execute, the queue
\* holds exactly the calls not yet taken, and none of them has been invoked.
C21_AtMostMaxWorkersExecuting ==
    /\ Executing <= MAX_WORKERS
    /\ pool_queue # <<>> => Executing = MAX_WORKERS
    /\ {pool_queue[i] : i \in DOMAIN pool_queue} = Queued
    /\ Len(pool_queue) = Cardinality(Queued)
    /\ \A q \in Queued : searches[q[1]].tasks[q[2]].invoked = 0

\* The user's search and the alert job's search wait together: four calls
\* execute, calls of both are among them, and the others are queued.
C21_Witness ==
    /\ searches["handler"].status = "waiting"
    /\ searches["sched"].status = "waiting"
    /\ RunningOf(searches["handler"]) # {}
    /\ RunningOf(searches["sched"]) # {}
    /\ Executing = MAX_WORKERS
    /\ pool_queue # <<>>

-----------------------------------------------------------------------------
(* Properties of the analytics tables *)

StatFields == {"new_users", "total_searches", "total_favorites", "total_alerts_sent"}

\* C22: no step lowers a counter of a daily_stats row or removes a row of
\* daily_stats or search_history, and the delete buttons of favourites and alerts
\* leave every counter as it is.
C22_CountersNeverDecrease ==
    [][/\ \A day \in DOMAIN db.daily_stats :
             /\ day \in DOMAIN db'.daily_stats
             /\ \A f \in StatFields : db'.daily_stats[day][f] >= db.daily_stats[day][f]
       /\ Len(db'.search_history) >= Len(db.search_history)
       /\ SubSeq(db'.search_history, 1, Len(db.search_history)) = db.search_history
       /\ \A id \in 1..MaxDelId :
             (CallbackDelFav(1, id) \/ CallbackDelAlert(1, id)) =>
                db'.daily_stats = db.daily_stats]_vars

\* The user saved a favourite and deleted it, added an alert and deleted it, and
\* searched twice: the counters still show the favourite and both searches.
C22_Witness ==
    /\ db.fav_seq >= 1 /\ db.favorites = {}
    /\ db.daily_stats[today].total_favorites = db.fav_seq
    /\ db.alerts # {} /\ \A a \in db.alerts : a.is_active = 0
    /\ Len(db.search_history) = 2
    /\ db.daily_stats[today].total_searches = 2
    /\ answer.text \in {"favorite_deleted", "alert_deleted"}

\* The active alert of user u for the keyword as add_alert stores it, if any.
ActiveTwins(u, keyword, cc) ==
    {a \in ActiveAlertsOf(db, u) :
        a.keyword = str_strip(str_lower(keyword)) /\ a.country_code = cc}

\* C24: no user has two active alerts with one (keyword, country), keywords
\* being stored lowercased and trimmed; choosing the country for a keyword the
\* user has an active alert for adds no row and is answered as a duplicate; for
\* a keyword without an active alert, removed ones included, it adds a new
\* active row.
C24_NoDuplicateActiveAlerts ==
    /\ [](\A a, b \in db.alerts :
             (/\ a.is_active = 1 /\ b.is_active = 1
              /\ a.user_id = b.user_id
              /\ a.keyword = b.keyword
              /\ a.country_code = b.country_code) => a = b)
    /\ [](\A a \in db.alerts : a.keyword = str_strip(str_lower(a.keyword)))
    /\ [][\A u \in Users :
            (CallbackAlertCountry(u, "qa") /\ user_data[u].alert_keyword # <<>>) =>
               IF ActiveTwins(u, user_data[u].alert_keyword, "qa") # {}
               THEN /\ db'.alerts = db.alerts
                    /\ db'.alert_seq = db.alert_seq
                    /\ answer' = [user |-> u, text |-> "alert_exists"]
               ELSE /\ db'.alerts = db.alerts \cup
                         {[id |-> db.alert_seq + 1, user_id |-> u,
                           keyword |-> str_strip(str_lower(user_data[u].alert_keyword)),
                           country_code |-> "qa", is_active |-> 1]}
                    /\ answer' = [user |-> u, text |-> "alert_added"]]_vars

\* The user removed an alert, added its keyword and country again, and was then
\* refused the same pair a third time.
C24_Witness ==
    /\ answer = [user |-> 1, text |-> "alert_exists"]
    /\ \E a, b \in db.alerts :
          /\ a.user_id = 1 /\ b.user_id = 1
          /\ a.keyword = b.keyword /\ a.country_code = b.country_code
          /\ a.is_active = 0 /\ b.is_active = 1
          /\ a.id < b.id
    /\ count_alerts(db, 1) = 1

\* C27: the alert job writes sent markers, sends the header and delivers job
\* messages only for an alert that is active at that moment.
C27_NothingForDeletedAlert ==
    [][/\ db'.sent_jobs # db.sent_jobs =>
             \E a \in db.alerts : a.id = sched'.alert.id /\ a.is_active = 1
       /\ (sched.pc = "header" /\ sched'.pc # "header") =>
             \E a \in db.alerts : a.id = sched.alert.id /\ a.is_active = 1
       /\ delivered' # delivered =>
             \E a \in db.alerts : a.id = sched.alert.id /\ a.is_active = 1]_vars

\* The step in which a job message of the alert job is delivered, or fails.
JobDelivered == delivered' # delivered

JobFailed == sched.pc = "jobs" /\ undelivered' # undelivered

\* C25: the jobs the alert job sets out to send for an alert are at most
\* ALERT_TOP, all among the first ALERT_TOP entries of the list its search
\* returned; every job message is the next of these, none is sent twice in the
\* run, and after a failed job message none of the alert is left to send.
C25_AtMostTopJobsPerAlert ==
    [][/\ (sched.pc \notin {"header", "jobs"} /\ sched'.pc = "header") =>
             /\ Len(sched'.new_jobs) \in 1..ALERT_TOP
             /\ \A i \in DOMAIN sched'.new_jobs :
                   \E k \in 1..Min(ALERT_TOP, Len(last_search'.result)) :
                      sched'.new_jobs[i] = last_search'.result[k]
       /\ (sched.pc = "header" /\ sched'.pc # "header") =>
             sched'.pc = "jobs" /\ sched'.new_jobs = sched.new_jobs
       /\ (JobDelivered \/ JobFailed) =>
             /\ sched.pc = "jobs"
             /\ sched.new_jobs # <<>>
             /\ JobDelivered =>
                   LET pair == <<sched.alert.user_id, Head(sched.new_jobs).job_url>>
                   IN  /\ pair \in DOMAIN delivered'
                       /\ \A p \in DOMAIN delivered :
                             p # pair => delivered'[p] = delivered[p]
             /\ sched'.pc = "jobs" =>
                   /\ sched'.new_jobs = Tail(sched.new_jobs)
                   /\ sched'.alert = sched.alert
             /\ sched'.pc # "jobs" => sched'.pc = "next" /\ sched'.new_jobs = <<>>
             /\ JobFailed => sched'.pc = "next" /\ sched'.new_jobs = <<>>]_vars

\* The search of an alert returned more than ALERT_TOP jobs; the first two job
\* messages were delivered, the third failed, and the run went on to the next
\* alert with the last two unsent.
C25_Witness ==
    /\ sched.pc = "next"
    /\ Len(last_search.result) > ALERT_TOP
    /\ \E a \in db.alerts :
          /\ a.is_active = 0
          /\ [alert |-> a.id, message |-> "job"] \in undelivered
          /\ <<a.user_id, last_search.result[2].job_url>> \in DOMAIN delivered
          /\ <<a.user_id, last_search.result[3].job_url>> \notin DOMAIN delivered
          /\ <<a.user_id, last_search.result[5].job_url>> \notin DOMAIN delivered
          /\ <<a.user_id, last_search.result[5].job_url>> \in SentPairs

\* C31: a user's alerts_enabled flag is 1 exactly when the user has an active
\* alert, whoever added or removed alerts, the alert job included.
C31_FlagFollowsActiveAlerts ==
    \A u \in Users : (db.alerts_enabled[u] = 1) <=> (count_alerts(db, u) > 0)

\* User 1 removed their only alert and the flag is 0; user 2 holds an active
\* alert, pressed the delete button of user 1's alert, which matches no row of
\* theirs, and the flag is still 1.
C31_Witness ==
    /\ \E a \in db.alerts : a.id = 1 /\ a.user_id = 1 /\ a.is_active = 0
    /\ count_alerts(db, 1) = 0
    /\ db.alerts_enabled[1] = 0
    /\ count_alerts(db, 2) > 0
    /\ db.alerts_enabled[2] = 1
    /\ answer = [user |-> 2, text |-> "cannot_delete"]

-----------------------------------------------------------------------------
(* Properties of the text a user types *)

\* C23: the term of every search whose scrape calls were invoked, the user's or
\* the alert job's, passes validate_search_input.
C23_ScrapedTermsValidated ==
    \A c \in Callers :
        (\E cc \in DOMAIN searches[c].tasks : searches[c].tasks[cc].invoked = 1) =>
            validate_search_input(searches[c].term)

\* The step in which the handler searches the term in the country, from the
\* cache or through the executor.
SearchesFor(term, cc) ==
    \/ /\ MissStep("handler")
       /\ searches'["handler"].term = term
       /\ searches'["handler"].cc = cc
    \/ /\ last_search'.caller = "handler"
       /\ last_search'.from_cache
       /\ last_search'.term = term
       /\ last_search'.cc = cc
       /\ Len(db'.search_history) = Len(db.search_history) + 1

\* C28: the valid text a user sends right after the bot answered their choice of
\* a search country is searched in that country.
C28_TextAfterCountryIsSearched ==
    [][\A u \in Users, cc \in CountryCodes, t \in MenuTexts :
          (/\ answer = [user |-> u, text |-> "send_job_title"]
           /\ user_data[u].country = cc
           /\ validate_search_input(str_strip(t))
           /\ Message(u, t))
          => SearchesFor(str_strip(t), cc)]_vars

\* The step starts no search and leaves the search log as it is.
NoSearchStep ==
    /\ searches' = searches
    /\ last_search' = last_search
    /\ job_cache' = job_cache
    /\ db'.search_history = db.search_history

\* What each branch of handle_message leaves behind for the text of user u.
BranchOutcome(branch, u, text) ==
    CASE branch = "alert" ->
            /\ answer' = [user |-> u, text |-> "choose_alert_country"]
            /\ user_data'[u] = [user_data[u] EXCEPT !.awaiting_alert_keyword = FALSE,
                                                    !.alert_keyword = text]
            /\ db'.preferred_keywords = db.preferred_keywords
            /\ NoSearchStep
      [] branch = "keywords" ->
            /\ answer' = [user |-> u, text |-> "keywords_saved"]
            /\ user_data'[u] = [user_data[u] EXCEPT !.awaiting_pref_keywords = FALSE]
            /\ db'.preferred_keywords[u] = split_keywords(text)
            /\ NoSearchStep
      [] branch = "broadcast" ->
            /\ answer' = [user |-> u, text |-> "broadcast_preview"]
            /\ user_data'[u] = [user_data[u] EXCEPT !.broadcast_message = text]
            /\ db'.preferred_keywords = db.preferred_keywords
            /\ NoSearchStep
      [] branch = "search" ->
            /\ user_data'[u].awaiting_alert_keyword = user_data[u].awaiting_alert_keyword
            /\ user_data'[u].awaiting_pref_keywords = user_data[u].awaiting_pref_keywords
            /\ user_data'[u].awaiting_broadcast = user_data[u].awaiting_broadcast
            /\ db'.preferred_keywords = db.preferred_keywords
            /\ IF validate_search_input(text)
               THEN SearchesFor(text, IF user_data[u].country = "unset" THEN "all"
                                      ELSE user_data[u].country)
               ELSE answer' = [user |-> u, text |-> "guide"] /\ NoSearchStep

Branches == {"alert", "keywords", "broadcast", "search"}

\* The branch the priority alert keyword > preferred keywords > broadcast > search
\* gives the next text of user u.
BranchDue(u) ==
    IF user_data[u].awaiting_alert_keyword THEN "alert"
    ELSE IF user_data[u].awaiting_pref_keywords THEN "keywords"
    ELSE IF user_data[u].awaiting_broadcast /\ u = admin_id /\ admin_id # 0 THEN "broadcast"
    ELSE "search"

\* C29: a text message is taken by exactly one branch, the first in the order
\* alert keyword, preferred keywords, broadcast, search whose input is pending;
\* a text taken as alert keyword or as preferred keywords clears that flag only
\* and starts no search, no scrape call and no search_history row.
C29_OneBranchByPriority ==
    [][\A u \in Users, t \in MenuTexts :
          Message(u, t) =>
              {b \in Branches : BranchOutcome(b, u, str_strip(t))} = {BranchDue(u)}]_vars

\* A text was taken as alert keyword while preferred keywords and a broadcast
\* text were pending too: both are still pending and nothing was searched.
C29_Witness ==
    /\ answer = [user |-> 1, text |-> "choose_alert_country"]
    /\ user_data[1].alert_keyword = T_dev
    /\ ~user_data[1].awaiting_alert_keyword
    /\ user_data[1].awaiting_pref_keywords
    /\ user_data[1].awaiting_broadcast
    /\ db.search_history = <<>>

-----------------------------------------------------------------------------
(* Properties of the search log *)

\* total_searches of a day, 0 for a day without a row.
SearchesOn(d, day) ==
    IF day \in DOMAIN d.daily_stats THEN d.daily_stats[day].total_searches ELSE 0

\* The sum of total_searches over the days.
RECURSIVE SumSearches(_, _)
SumSearches(d, days) ==
    IF days = {} THEN 0
    ELSE LET day == CHOOSE x \in days : TRUE
         IN  SearchesOn(d, day) + SumSearches(d, days \ {day})

\* The step in which perform_search gets the list of its search: the waiting
\* handler is resumed, or a text is searched and answered from the cache at once.
PerformSearchReturns ==
    \/ handler.pc = "searching" /\ handler'.pc = "idle"
    \/ \E u \in Users, t \in SearchTexts :
          /\ Message(u, t)
          /\ BranchDue(u) = "search"
          /\ validate_search_input(str_strip(t))
          /\ handler'.pc = "idle"

-----------------------------------------------------------------------------
(* Properties of the dashboard *)

Operator(u) == admin_id # 0 /\ u = admin_id

\* What the dashboard and the broadcast show.
AdminTexts == {"admin_dashboard", "admin_menu", "analytics", "broadcast_prompt", "broadcast_preview",
               "broadcast_sent", "broadcast_cancelled", "no_broadcast_message"}

\* C14: only the configured operator is shown the dashboard, an analytics page
\* or a broadcast step and only the operator holds broadcast state; any other
\* user gets nothing of the dashboard; with ADMIN_ID 0 there is no operator.
C14_OnlyOperatorAdministers ==
    /\ answer.text \in AdminTexts => Operator(answer.user)
    /\ \A u \in Users :
          (user_data[u].awaiting_broadcast \/ user_data[u].broadcast_message # <<>>)
              => Operator(u)
    /\ admin_id = 0 => answer.text \notin AdminTexts

\* The operator has a broadcast ready to confirm and user 2 has just been refused
\* a dashboard button.
C14_Witness ==
    /\ admin_id = 1
    /\ user_data[1].awaiting_broadcast
    /\ user_data[1].broadcast_message # <<>>
    /\ answer = [user |-> 2, text |-> "not_authorized"]

\* The log entry is one round over the rows of the users table: one attempt per
\* row, each counted once as sent or as failed.
OneAttemptPerUser(e, d) ==
    /\ Len(e.attempts) = Cardinality(d.users)
    /\ {e.attempts[i].to : i \in DOMAIN e.attempts} = d.users
    /\ e.sent = Cardinality({i \in DOMAIN e.attempts : e.attempts[i].ok})
    /\ e.failed = Cardinality({i \in DOMAIN e.attempts : ~e.attempts[i].ok})
    /\ e.sent + e.failed = Cardinality(d.users)

-----------------------------------------------------------------------------
(* Properties of the rows of another user *)

\* What the database holds for a user: favourites, alerts and the alerts flag.
OwnedData(d, b) ==
    [favorites |-> FavoritesOf(d, b),
     alerts |-> {al \in d.alerts : al.user_id = b},
     alerts_enabled |-> d.alerts_enabled[b]]

\* C32: a delfav_, viewfav_ or delalert_ press of user a leaves the favourites,
\* the alerts and the alerts flag of every other user b as they are; when the id
\* is that of a row of b, a is told that nothing was deleted or found and is not
\* shown the favourite.
C32_OtherUsersRowsUntouched ==
    [][\A a, b \in Users, id \in 1..MaxDelId :
          a # b =>
            /\ (CallbackDelFav(a, id) \/ CallbackViewFav(a, id) \/ CallbackDelAlert(a, id))
                  => OwnedData(db', b) = OwnedData(db, b)
            /\ (\E f \in db.favorites : f.id = id /\ f.user_id = b) =>
                  /\ CallbackDelFav(a, id) => answer' = [user |-> a, text |-> "cannot_delete"]
                  /\ CallbackViewFav(a, id) =>
                        answer' = [user |-> a, text |-> "favorite_not_found"]
            /\ (\E al \in db.alerts : al.id = id /\ al.user_id = b) =>
                  (CallbackDelAlert(a, id) => answer' = [user |-> a, text |-> "cannot_delete"])]_vars

\* User 1 holds favourite 1 and the active alert 1, user 2 holds an active alert
\* of their own and has just been refused a delete button.
C32_Witness ==
    /\ \E f \in db.favorites : f.id = 1 /\ f.user_id = 1
    /\ \E al \in db.alerts : al.id = 1 /\ al.user_id = 1 /\ al.is_active = 1
    /\ count_alerts(db, 2) > 0
    /\ answer = [user |-> 2, text |-> "cannot_delete"]

-----------------------------------------------------------------------------
(* Properties of the preferences *)

\* The countries of a list.
CountriesIn(list) == {list[i] : i \in DOMAIN list}

-----------------------------------------------------------------------------
(* Properties of the users table *)

\* What the commands /search, /help and /admin answer.
CommandTexts == {"choose_search_country", "help", "admin_only", "admin_dashboard"}

-----------------------------------------------------------------------------
(* Properties of the failure handling *)

\* C18: whatever Telegram call, scrape call or database call fails, no
\* exception leaves a command handler, the callback handler, the message handler
\* or the alert task, the handlers go on answering, and a user at the alert cap
\* whose count read fails is treated as having no alert (the default 0).
C18_NoExceptionEscapes ==
    /\ [](answer.text # "unhandled_exception" /\ handler.pc = "idle")
    /\ [][\A u \in Users, dbx \in DatabaseFailures :
            CallbackAddAlertDbDown(u, dbx) =>
               /\ user_data'[u].awaiting_alert_keyword
               /\ answer' = [user |-> u, text |-> "send_alert_keyword"]]_vars

\* User 1 holds five alerts and was asked for a keyword all the same, the count
\* having failed, and has sent the keyword; then a handler of user 2 logged a
\* failure and no row was written for user 2.
C18_Witness ==
    /\ count_alerts(db, 1) = MAX_ALERTS
    /\ user_data[1].alert_keyword = T_a
    /\ 2 \notin db.users
    /\ answer = [user |-> 2, text |-> "error_logged"]

====
